---- MODULE Spec2Model ----
(***************************************************************************)
(* A model of the loadshed admission-control engine: the Shedder (Do,      *)
(* Select, WrapSelect), the rejection-rate / failure-probability composers *)
(* and the capacities whose Wrap decorators observe admitted invocations.  *)
(***************************************************************************)
EXTENDS Integers, Sequences, FiniteSets, TLC

(* ------------------------------------------------------------------ *)
(* Bounds of the model                                                 *)
(* ------------------------------------------------------------------ *)

\* Processes (goroutines) that may call into the Shedder.
NumProcs == 2
\* Rules and rejection rates registered with one Shedder, together.
MaxPolicies == 2
\* Invocations of Do / the WrapSelect function / Select per behaviour.
MaxCalls == 2
\* The random source returns k / DrawSteps, k in 0 .. DrawSteps - 1.
DrawSteps == 2
\* Buckets of every rolling window (OptionXWindowBuckets).
Buckets == 2
\* Longest measured duration of an action, in bucket durations.
MaxElapsed == 1
\* The limit given to NewCapacityConcurrency / LandingRate / Latency.
Limit == 2
\* Calls of CapacityWaitGroup.Add per behaviour.
MaxAdds == 3
\* Calls of one capacity's wrapped function made directly, as the tests do.
MaxRuns == 3
\* The threshold given to OptionErrorRateMinimumPoints.
Points == 2
\* The longest duration given to NewCapacityThrottle, in clock steps.
MaxDuration == 2
\* The clock steps a behaviour of the throttle covers.
MaxTime == 3
\* Calls of CapacityThrottle.Usage and of the wrapped function per behaviour.
MaxReads == 4
\* The largest Exponent of a CurveLinear.
MaxExponent == 2
\* Calls of TransportMiddleware.RoundTrip per behaviour.
MaxTrips == 4

Procs == 1 .. NumProcs

(* ------------------------------------------------------------------ *)
(* float32 values, modelled as exact fractions [n, d] in lowest terms  *)
(* ------------------------------------------------------------------ *)

RECURSIVE GCD(_, _)
GCD(a, b) == IF b = 0 THEN a ELSE GCD(b, a % b)

Abs(a) == IF a < 0 THEN -a ELSE a

Sign(a) == IF a < 0 THEN -1 ELSE IF a > 0 THEN 1 ELSE 0

\* d = 0 stands for the values float division by zero produces: 0/0 is NaN
\* ([n |-> 0, d |-> 0]), x/0 is +Inf or -Inf ([n |-> 1 or -1, d |-> 0]).
Frac(n, d) ==
    IF d = 0 THEN [n |-> Sign(n), d |-> 0]
    ELSE IF n = 0 THEN [n |-> 0, d |-> 1]
    ELSE LET g == GCD(Abs(n), Abs(d))
         IN  [n |-> (Sign(d) * n) \div g, d |-> Abs(d) \div g]

Zero == Frac(0, 1)
One == Frac(1, 1)
Half == Frac(1, 2)

\* The float comparison a < b; false whenever a or b is NaN.
Less(a, b) == a.n * b.d < b.n * a.d
Sub(a, b) == Frac(a.n * b.d - b.n * a.d, a.d * b.d)
Div(a, b) == Frac(a.n * b.d, a.d * b.n)

RECURSIVE Pow(_, _)
Pow(a, k) == IF k = 0 THEN One ELSE LET r == Pow(a, k - 1) IN Frac(a.n * r.n, a.d * r.d)

(* ------------------------------------------------------------------ *)
(* Classification and the call context                                 *)
(* ------------------------------------------------------------------ *)

\* The zero value of Classification, and the classes the requests use.
EmptyClass == ""
Classifications == {EmptyClass, "HIGH", "LOW"}

\* A context without the classification key.
NoValue == "<nil>"

\* A call context: the value stored under classCtxKey (NoValue when the key
\* is absent) and the request attribute a classifier looks at.
Contexts ==
    { [class |-> NoValue, path |-> "LOW"],
      [class |-> "LOW", path |-> "HIGH"] }

\* A read of the context that takes no notice of the value stored in it.
ClassificationFromContextEmpty(c) == EmptyClass

ClassificationFromContext(c) == IF c.class = NoValue THEN EmptyClass ELSE c.class

\* An attachment that keeps a classification the context already carries.
ClassificationToContextKeep(c, class) ==
    IF c.class = NoValue THEN [c EXCEPT !.class = class] ELSE c

ClassificationToContext(c, class) == [c EXCEPT !.class = class]

\* A ClassifierFN that derives the classification from the request.
Classify(c) == c.path

\* The classifier field of a Shedder: nil, or the ClassifierFN above.
Classifiers == {"nil", "fn"}

(* ------------------------------------------------------------------ *)
(* Rules                                                               *)
(* ------------------------------------------------------------------ *)

RuleProbabilistic == "PROBABILISTIC"

\* A Rule: its name and the classifications whose invocations it rejects
\* (a deterministic decision read from the context).
RuleMenu ==
    { [name |-> "static", rejects |-> {}],
      [name |-> "quota", rejects |-> {"LOW"}],
      [name |-> RuleProbabilistic, rejects |-> Classifications] }

RuleName(r) == r.name

Reject(r, c) == ClassificationFromContext(c) \in r.rejects

(* ------------------------------------------------------------------ *)
(* Curves                                                              *)
(* ------------------------------------------------------------------ *)

NoFrac == Zero
CurveIdentity ==
    [type |-> "fn", fn |-> "identity", Lower |-> NoFrac, Upper |-> NoFrac, Exponent |-> 1]
CurveLinear(lower, upper, exponent) ==
    [type |-> "linear", fn |-> "", Lower |-> lower, Upper |-> upper, Exponent |-> exponent]

\* A curve function that squares its input.
CurveFNSquares(c, value) == Frac(value.n * value.n, value.d * value.d)

\* The only CurveFN the constructors install is the identity.
CurveFN(c, value) == value

\* A linear curve that returns 1 from Upper on.
CurveLinearInclusive(c, value) ==
    IF Less(value, c.Lower) THEN Zero
    ELSE IF ~Less(value, c.Upper) THEN One
    ELSE LET line == Div(Sub(value, c.Lower), Sub(c.Upper, c.Lower))
         IN  IF c.Exponent # 1 THEN Pow(line, c.Exponent) ELSE line

\* A linear curve without the test against Upper.
CurveLinearUnclamped(c, value) ==
    IF Less(value, c.Lower) THEN Zero
    ELSE LET line == Div(Sub(value, c.Lower), Sub(c.Upper, c.Lower))
         IN  IF c.Exponent # 1 THEN Pow(line, c.Exponent) ELSE line

CurveLinearCurve(c, value) ==
    IF Less(value, c.Lower) THEN Zero
    ELSE IF Less(c.Upper, value) THEN One
    ELSE LET line == Div(Sub(value, c.Lower), Sub(c.Upper, c.Lower))
         IN  IF c.Exponent # 1 THEN Pow(line, c.Exponent) ELSE line

Curve(c, value) ==
    IF c.type = "linear" THEN CurveLinearCurve(c, value) ELSE CurveFN(c, value)

(* ------------------------------------------------------------------ *)
(* The rolling windows (github.com/kevinconway/rolling)                *)
(* ------------------------------------------------------------------ *)

\* A window is a sequence of Buckets buckets, oldest first; a bucket is the
\* sequence of the samples appended while it was the current one.
EmptyWindow == [i \in 1 .. Buckets |-> <<>>]

WindowAppend(w, v) == [w EXCEPT ![Buckets] = Append(@, v)]

\* A window whose oldest bucket never leaves: its samples are kept in the
\* bucket that becomes the oldest.
WindowSlideKeeps(w) ==
    [i \in 1 .. Buckets |-> IF i = Buckets THEN <<>>
                            ELSE IF i = 1 THEN w[1] \o w[2] ELSE w[i + 1]]

\* One bucket duration passes: the oldest bucket leaves the window.
WindowSlide(w) == [i \in 1 .. Buckets |-> IF i = Buckets THEN <<>> ELSE w[i + 1]]

\* n bucket durations pass.
RECURSIVE WindowExpire(_, _)
WindowExpire(w, n) == IF n = 0 THEN w ELSE WindowExpire(WindowSlide(w), n - 1)

RECURSIVE SeqSum(_)
SeqSum(q) == IF q = <<>> THEN 0 ELSE Head(q) + SeqSum(Tail(q))

RECURSIVE WindowPoints(_, _)
WindowPoints(w, i) == IF i = 0 THEN <<>> ELSE WindowPoints(w, i - 1) \o w[i]

\* rolling.Count: the number of samples in the window.
Count(w) == Len(WindowPoints(w, Buckets))

\* A mean that divides by the number of samples even when there is none.
AvgUnguarded(w) ==
    LET pts == WindowPoints(w, Buckets)
    IN  Frac(SeqSum(pts), Len(pts))

\* rolling.Avg: the mean of the samples in the window, 0 for an empty window.
Avg(w) ==
    LET pts == WindowPoints(w, Buckets)
    IN  IF pts = <<>> THEN Zero ELSE Frac(SeqSum(pts), Len(pts))

(* ------------------------------------------------------------------ *)
(* State                                                               *)
(* ------------------------------------------------------------------ *)

VARIABLES
    \* The Shedder, fixed by NewShedder.
    rules, rejectionRates, classifier,
    \* OptionLatencyMeasurePanics of the CapacityLatency.
    measurePanics,
    \* CapacityErrorRate.minimumPoints, set by OptionErrorRateMinimumPoints.
    minimumPoints,
    \* CapacityConcurrency.limit.
    limit,
    \* The processes that call into the Shedder.
    active,
    \* CapacityConcurrency.current.
    current,
    \* CapacityLandingRate.invocations.
    landing,
    \* CapacityErrorRate.invocations and CapacityErrorRate.errors.
    invocations, errors,
    \* CapacityLatency.window.
    window,
    \* staticCountingRate.count.
    count,
    \* The Fn returned by WrapSelect, once it has been called.
    wrapped,
    \* Invocations started so far.
    calls,
    \* Per process: position, entry point, context, loop index, the attempt
    \* count a CapacityErrorRate.Usage call has read, the rate compared with
    \* the draw, the usage read for the ErrRejection, the error Select
    \* returned, the Fn to run, the wrappers entered, the value travelling
    \* back to the caller, and the events of the invocation so far.
    pc, mode, ctx, idx, attempts, rate, usage, selectErr, fn, frames, ret, log,
    \* CapacityWaitGroup.wg (the counter of the sync.WaitGroup); the goroutine
    \* that adds work and waits for it: its position and the workers its Add
    \* in progress is for; per process, the position of a worker that ends
    \* with Done; the usage the waiter read after Wait returned.
    wg, waiter, worker, observed,
    \* CapacityThrottle: duration, lock (the process holding the mutex, 0
    \* when it is free), last and cache; the clock time.Now reads; and the
    \* calls of the wrapped Capacity's Usage so far, each with its time, its
    \* result and its caller.
    duration, lock, last, cache, clock, refreshes,
    \* A CurveLinear, the value its Curve method is called with, and what
    \* the call returned.
    linear, input, output,
    \* HandlerMiddleware.callback and HandlerMiddleware.errCodes; per
    \* process: the position in ServeHTTP, the status variable of the call,
    \* the codes written to the ResponseWriter, and for every run of the
    \* callback the ErrRejection that FromHandlerContext gives it.
    callback, errCodes, serving, status, response, handled,
    \* TransportMiddleware: its callback and the error codes of the
    \* errCodeTransport put around the wrapped RoundTripper; per process, the
    \* call of RoundTrip: its position, the resp variable, the pair it
    \* returned, the requests that reached the wrapped RoundTripper, and for
    \* every run of the callback the ErrRejection FromTransportContext gives.
    transport, trip

shedderVars ==
    <<rules, rejectionRates, classifier, measurePanics, minimumPoints, limit, active>>
capacityVars == <<current, landing, invocations, errors, window, count>>
procVars == <<pc, mode, ctx, idx, attempts, rate, usage, selectErr, fn, frames, ret, log>>
groupVars == <<wg, waiter, worker, observed>>
throttleVars == <<duration, lock, last, cache, clock, refreshes>>
curveVars == <<linear, input, output>>
handlerVars == <<callback, errCodes, serving, status, response, handled>>
transportVars == <<transport, trip>>
sideVars == <<throttleVars, curveVars, handlerVars, transportVars>>
vars == <<shedderVars, capacityVars, wrapped, calls, procVars, groupVars, sideVars>>

(* ------------------------------------------------------------------ *)
(* Capacities, failure probabilities and rejection rates               *)
(* ------------------------------------------------------------------ *)

defaultNameConcurrency == "CONCURRENCY"
defaultNameLandingRate == "LANDING RATE"
defaultNameErrorRate == "ERROR RATE"
defaultNameLatency == "LATENCY"
nameStatic == "static"

NoCurves == {}

\* A RejectionRate. kind "static" is a rate of fixed value with a counting
\* Wrap; kind "plain" is a rate of fixed value that is no Wrapper; kind
\* "curve" is a RejectionRateCurve over a FailureProbabilityCurve over the
\* capacity named cap. classificationCurves is the set of
\* <<classification, curve>> entries of the map.
RateOf(kind, value, cap, probCurve, defaultCurve, classificationCurves) ==
    [kind |-> kind, value |-> value, cap |-> cap, Curve |-> probCurve,
     defaultCurve |-> defaultCurve, classificationCurves |-> classificationCurves]

StaticRate(v) == RateOf("static", v, nameStatic, CurveIdentity, CurveIdentity, NoCurves)
PlainRate(v) == RateOf("plain", v, "plain", CurveIdentity, CurveIdentity, NoCurves)

NewFailureProbabilityCurveIdentity(cap) ==
    RateOf("curve", Zero, cap, CurveIdentity, CurveIdentity, NoCurves)

NewFailureProbabilityCurveLinear(cap, lower, upper, exponent) ==
    RateOf("curve", Zero, cap, CurveLinear(lower, upper, exponent), CurveIdentity, NoCurves)

NewRejectionRateCurveIdentity(probability) ==
    [probability EXCEPT !.defaultCurve = CurveIdentity, !.classificationCurves = NoCurves]

NewRejectionRateCurveLinear(probability, lower, upper, exponent) ==
    [probability EXCEPT !.defaultCurve = CurveLinear(lower, upper, exponent),
                        !.classificationCurves = NoCurves]

NewRejectionRateCurveByClassification(probability, defaultCurve, classes) ==
    [probability EXCEPT !.defaultCurve = defaultCurve, !.classificationCurves = classes]

ConcurrencyRate ==
    NewRejectionRateCurveIdentity(NewFailureProbabilityCurveIdentity(defaultNameConcurrency))

LandingRate ==
    NewRejectionRateCurveLinear(
        NewFailureProbabilityCurveIdentity(defaultNameLandingRate), Zero, One, 2)

\* Low-priority invocations are shed twice as eagerly.
ErrorRate ==
    NewRejectionRateCurveByClassification(
        NewFailureProbabilityCurveLinear(defaultNameErrorRate, Zero, Frac(2, 1), 1),
        CurveIdentity, {<<"LOW", CurveLinear(Zero, Half, 1)>>})

\* The rate of TestTransportLoadshedder: the error rate under the identity
\* probability and a linear rejection curve with lower = upper = 1/2.
ErrorStepRate ==
    NewRejectionRateCurveLinear(
        NewFailureProbabilityCurveIdentity(defaultNameErrorRate), Half, Half, 1)

LatencyRate ==
    NewRejectionRateCurveIdentity(
        NewFailureProbabilityCurveLinear(defaultNameLatency, Zero, One, 1))

\* capCounter of the tests: a Capacity that is no Wrapper; its Usage is 1.
nameCounter == "counter"

\* NewCapacityThrottle(wrapped, duration) under the identity curves: kind
\* "throttled" is a RejectionRateCurve over a FailureProbabilityCurve over a
\* CapacityThrottle over the capacity named cap.
NewCapacityThrottle(cap) ==
    [NewRejectionRateCurveIdentity(NewFailureProbabilityCurveIdentity(cap))
        EXCEPT !.kind = "throttled"]

ThrottledRates == {NewCapacityThrottle(defaultNameConcurrency), NewCapacityThrottle(nameCounter)}

\* The rates of fixed value, and the rates over the built-in capacities.
FixedRates == {StaticRate(One), PlainRate(Half)}
CapacityRates == {ConcurrencyRate, LandingRate, ErrorRate, LatencyRate}

SeqsUpTo(S, n) == UNION {[1 .. k -> S] : k \in 0 .. n}

Distinct(q) == \A i, j \in DOMAIN q : q[i] = q[j] => i = j

Fixed(r) == r.kind \in {"static", "plain"}

Name(r) == r.cap

\* The value attempts[p] holds while no attempt count has been read.
NoRead == -1

CapacityConcurrencyUsageSlack == Frac(current, limit + 1)

CapacityConcurrencyUsage == Frac(current, limit)

CapacityLandingRateUsage == Frac(Count(landing), Limit)

\* rolling.MinimumPoints(points, rolling.Count): the count of the samples
\* in the window once there are at least points of them, and 0 before.
MinimumPoints(points, w) == IF Count(w) < points THEN 0 ELSE Count(w)

\* An attempt reducer that counts the samples whatever the option says.
attemptReducerPlain(w) == Count(w)

\* CapacityErrorRate.attemptReducer, as NewCapacityErrorRate sets it.
attemptReducer(w) ==
    IF minimumPoints > 0 THEN MinimumPoints(minimumPoints, w) ELSE Count(w)

\* A CapacityErrorRate.Usage that divides whatever the attempt count is and
\* only turns a NaN into 0.
CapacityErrorRateUsageUnguarded(att) ==
    LET value == Frac(Count(errors), att)
    IN  IF value.d = 0 /\ value.n = 0 THEN Zero ELSE value

\* CapacityErrorRate.Usage after its first Reduce returned att.
CapacityErrorRateUsage(att) ==
    IF att = 0 THEN Zero
    ELSE LET value == Frac(Count(errors), att)
         IN  IF value.d = 0 /\ value.n = 0 THEN Zero ELSE value

CapacityLatencyUsage == Div(Avg(window), Frac(Limit, 1))

CapacityUsage(cap, att) ==
    CASE cap = defaultNameConcurrency -> CapacityConcurrencyUsage
      [] cap = defaultNameLandingRate -> CapacityLandingRateUsage
      [] cap = defaultNameErrorRate -> CapacityErrorRateUsage(att)
      [] cap = defaultNameLatency -> CapacityLatencyUsage

Usage(r, att) == IF Fixed(r) THEN r.value ELSE CapacityUsage(r.cap, att)

Likelihood(r, att) == IF Fixed(r) THEN r.value ELSE Curve(r.Curve, Usage(r, att))

\* A Rate that applies the default curve whatever the classification.
RateCurveDefault(r, class) == r.defaultCurve

\* The curve RejectionRateCurve.Rate picks for a classification.
RateCurve(r, class) ==
    IF \E e \in r.classificationCurves : e[1] = class
    THEN (CHOOSE e \in r.classificationCurves : e[1] = class)[2]
    ELSE r.defaultCurve

Rate(r, c, att) ==
    IF Fixed(r) THEN r.value
    ELSE Curve(RateCurve(r, ClassificationFromContext(c)), Likelihood(r, att))

\* Whether the rate implements Wrapper.
IsWrapper(r) == r.kind # "plain"

\* Whether the capacity implements Wrapper: the built-in ones do.
CapacityIsWrapper(cap) ==
    cap \in {defaultNameConcurrency, defaultNameLandingRate, defaultNameErrorRate,
             defaultNameLatency}

\* Wrap of the capacity at the bottom of rate j, applied to the function f
\* (the list of the wrapping rates, innermost first).
CapacityWrap(j, f) == Append(f, j)

\* A CapacityThrottle that has no Wrap of its own: the embedded Capacity
\* interface has none to promote, so the throttle is no Wrapper.
CapacityThrottleWrapMissing(r, j, f) == f

\* CapacityThrottle.Wrap.
CapacityThrottleWrap(r, j, f) ==
    IF CapacityIsWrapper(r.cap) THEN CapacityWrap(j, f) ELSE f

\* FailureProbabilityCurve.Wrap: its Capacity is the throttle, which is a
\* Wrapper, or the capacity itself.
FailureProbabilityCurveWrap(r, j, f) ==
    IF r.kind = "throttled" THEN CapacityThrottleWrap(r, j, f)
    ELSE IF CapacityIsWrapper(r.cap) THEN CapacityWrap(j, f) ELSE f

\* RejectionRateCurve.Wrap: its FailureProbability is a
\* FailureProbabilityCurve, which is a Wrapper.
RejectionRateCurveWrap(r, j, f) == FailureProbabilityCurveWrap(r, j, f)

\* w.Wrap(fn) for the rate r registered at index j.
RateWrap(r, j, f) ==
    IF r.kind = "static" THEN Append(f, j) ELSE RejectionRateCurveWrap(r, j, f)

(* ------------------------------------------------------------------ *)
(* Errors                                                              *)
(* ------------------------------------------------------------------ *)

\* An error value: nil, an ErrRejection, the action's own error, or (for
\* the value travelling up the stack) a panic.
ErrorOf(type, rule, class, name, u, l, rt) ==
    [type |-> type, Rule |-> rule, Classification |-> class, Name |-> name,
     Usage |-> u, Likelihood |-> l, Rate |-> rt]

Nil == ErrorOf("nil", "", EmptyClass, "", Zero, Zero, Zero)
ActionError == ErrorOf("error", "", EmptyClass, "", Zero, Zero, Zero)
Panic == ErrorOf("panic", "", EmptyClass, "", Zero, Zero, Zero)
ErrRejection(rule, class, name, u, l, rt) ==
    ErrorOf("ErrRejection", rule, class, name, u, l, rt)

Outcomes == {Nil, ActionError, Panic}

(* ------------------------------------------------------------------ *)
(* Construction                                                        *)
(* ------------------------------------------------------------------ *)

Registered(cap) == \E i \in DOMAIN rejectionRates : rejectionRates[i].cap = cap

\* NewShedder with any options, the capacities freshly constructed.
InitShedder(ruleMenu, rateMenu) ==
    /\ rules \in SeqsUpTo(ruleMenu, MaxPolicies)
    /\ rejectionRates \in {q \in SeqsUpTo(rateMenu, MaxPolicies - Len(rules)) : Distinct(q)}
    /\ classifier \in Classifiers
    /\ measurePanics \in (IF Registered(defaultNameLatency) THEN BOOLEAN ELSE {FALSE})
    /\ minimumPoints = 0
    /\ limit = Limit

InitCapacities ==
    /\ current = 0
    /\ landing = EmptyWindow
    /\ invocations = EmptyWindow
    /\ errors = EmptyWindow
    /\ window = EmptyWindow
    /\ count = 0

NoContext == [class |-> NoValue, path |-> ""]

InitProcs ==
    /\ wrapped = [made |-> FALSE, fn |-> <<>>]
    /\ calls = 0
    /\ pc = [p \in Procs |-> "idle"]
    /\ mode = [p \in Procs |-> "Do"]
    /\ ctx = [p \in Procs |-> NoContext]
    /\ idx = [p \in Procs |-> 1]
    /\ attempts = [p \in Procs |-> NoRead]
    /\ rate = [p \in Procs |-> Zero]
    /\ usage = [p \in Procs |-> Zero]
    /\ selectErr = [p \in Procs |-> Nil]
    /\ fn = [p \in Procs |-> <<>>]
    /\ frames = [p \in Procs |-> <<>>]
    /\ ret = [p \in Procs |-> Nil]
    /\ log = [p \in Procs |-> <<>>]

\* A CapacityWaitGroup nobody has used yet.
\* The zero time.Time: further in the past than any duration in use.
ZeroTime == 0 - (MaxDuration + MaxTime)

Unlocked == 0

\* NewCapacityThrottle(wrapped, d): last and cache are left at their zero
\* values, the mutex is free.
InitThrottle(d) ==
    /\ duration = d
    /\ lock = Unlocked
    /\ last = ZeroTime
    /\ cache = Zero
    /\ clock = 0
    /\ refreshes = <<>>

\* The thresholds and the values the CurveLinear calls are made with: those
\* of TestCurveLinear_Curve, and 1/2.
Thresholds == {Frac(n, 1) : n \in {0, 20, 80, 100, 180, 200}} \cup {Half}
Values == {Frac(n, 1) : n \in {0, 50, 100, 150, 250}} \cup {Half}

\* c := &CurveLinear{Upper: upper, Lower: lower, Exponent: exponent}; Curve
\* has not been called.
InitCurve(lower, upper, exponent) ==
    /\ linear = CurveLinear(lower, upper, exponent)
    /\ input = Zero
    /\ output = <<>>

\* NewHandlerMiddleware(l, options...)(next): the callback is the default
\* one unless HandlerOptionCallback replaced it, errCodes holds the codes of
\* HandlerOptionErrCodes; no request is being served.
InitHandler(cb, codes) ==
    /\ callback = cb
    /\ errCodes = codes
    /\ serving = [p \in Procs |-> "idle"]
    /\ status = [p \in Procs |-> 0]
    /\ response = [p \in Procs |-> <<>>]
    /\ handled = [p \in Procs |-> <<>>]

\* No RoundTrip call yet.
NoTrip == [at |-> "idle", resp |-> 0, result |-> <<>>, sent |-> 0, seen |-> <<>>]

\* NewTransportMiddleware(shed, options...)(c): callback is nil unless
\* TransportOptionCallback set it, codes are those of
\* TransportOptionErrorCodes.
InitTransport(cb, codes) ==
    /\ transport = [callback |-> cb, errorCodes |-> codes]
    /\ trip = [p \in Procs |-> NoTrip]

InitSide ==
    /\ InitThrottle(1)
    /\ InitCurve(Zero, One, 1)
    /\ InitHandler("default", {})
    /\ InitTransport("nil", {})

InitGroup ==
    /\ wg = 0
    /\ waiter = [pc |-> "idle", started |-> {}]
    /\ worker = [p \in Procs |-> "idle"]
    /\ observed = Zero

\* One caller at a time; any rules, the rates of fixed value and the error
\* rate.
Init ==
    /\ InitGroup
    /\ InitSide
    /\ InitShedder(RuleMenu, FixedRates \cup {ErrorRate})
    /\ active = {1}
    /\ InitCapacities
    /\ InitProcs

\* Every process may call, at any time; the rate over the concurrency
\* counter, no rules.
InitConcurrentSpec ==
    /\ InitGroup
    /\ InitSide
    /\ InitShedder({}, {ConcurrencyRate})
    /\ active = Procs
    /\ InitCapacities
    /\ InitProcs

\* One caller at a time; rates over every built-in capacity, and the one
\* rule that rejects by classification.
InitCapacitySpec ==
    /\ InitGroup
    /\ InitSide
    /\ InitShedder({r \in RuleMenu : r.name = "quota"}, CapacityRates)
    /\ active = {1}
    /\ InitCapacities
    /\ InitProcs

(* ------------------------------------------------------------------ *)
(* The events of one invocation (history, read only by the properties) *)
(* ------------------------------------------------------------------ *)

\* ev: what was called; i: the index of the rule or rate concerned (0 when
\* none); class: the classification the callee read from its context;
\* val: the value returned or recorded.
Event(ev, i, class, val) == [ev |-> ev, i |-> i, class |-> class, val |-> val]

\* A measurement: the wrapper of rate i changed the state named what by val.
Measured(i, what, val) == Event("measure", i, what, val)

Logged(p, evs) == log' = [log EXCEPT ![p] = @ \o evs]

Bool(b) == IF b THEN One ELSE Zero

\* The values the random source can return, all in [0, 1).
Draws == {Frac(k, DrawSteps) : k \in 0 .. DrawSteps - 1}

(* ------------------------------------------------------------------ *)
(* Entry points                                                        *)
(* ------------------------------------------------------------------ *)

\* The function Do and WrapSelect build from fn: every rate that is a
\* Wrapper wraps it, in registration order, so the first rate registered
\* is the innermost wrapper. The result lists the wrapping rates,
\* innermost first.
RECURSIVE WrapUpTo(_)
WrapUpTo(n) ==
    IF n = 0 THEN <<>>
    ELSE IF IsWrapper(rejectionRates[n])
         THEN RateWrap(rejectionRates[n], n, WrapUpTo(n - 1))
         ELSE WrapUpTo(n - 1)

WrapAll == WrapUpTo(Len(rejectionRates))

\* An invocation that goes on from the loop index, the rate and the error
\* the previous one of the caller ended with.
BeginKeeps(p, m, c, first) ==
    /\ p \in active
    /\ pc[p] \in {"idle", "done"}
    /\ calls < MaxCalls
    /\ calls' = calls + 1
    /\ pc' = [pc EXCEPT ![p] = first]
    /\ mode' = [mode EXCEPT ![p] = m]
    /\ ctx' = [ctx EXCEPT ![p] = c]
    /\ attempts' = [attempts EXCEPT ![p] = NoRead]
    /\ usage' = [usage EXCEPT ![p] = Zero]
    /\ fn' = [fn EXCEPT ![p] = <<>>]
    /\ frames' = [frames EXCEPT ![p] = <<>>]
    /\ ret' = [ret EXCEPT ![p] = Nil]
    /\ log' = [log EXCEPT ![p] = <<>>]
    /\ UNCHANGED <<shedderVars, sideVars, groupVars, capacityVars, wrapped, idx, rate,
                   selectErr>>

Begin(p, m, c, first) ==
    /\ p \in active
    /\ pc[p] \in {"idle", "done"}
    /\ calls < MaxCalls
    /\ calls' = calls + 1
    /\ pc' = [pc EXCEPT ![p] = first]
    /\ mode' = [mode EXCEPT ![p] = m]
    /\ ctx' = [ctx EXCEPT ![p] = c]
    /\ idx' = [idx EXCEPT ![p] = 1]
    /\ attempts' = [attempts EXCEPT ![p] = NoRead]
    /\ rate' = [rate EXCEPT ![p] = Zero]
    /\ usage' = [usage EXCEPT ![p] = Zero]
    /\ selectErr' = [selectErr EXCEPT ![p] = Nil]
    /\ fn' = [fn EXCEPT ![p] = <<>>]
    /\ frames' = [frames EXCEPT ![p] = <<>>]
    /\ ret' = [ret EXCEPT ![p] = Nil]
    /\ log' = [log EXCEPT ![p] = <<>>]
    /\ UNCHANGED <<shedderVars, sideVars, groupVars, capacityVars, wrapped>>

\* A caller invokes shedder.Do(ctx, fn).
CallDo(p) == \E c \in Contexts : Begin(p, "Do", c, "classify")

\* A caller invokes shedder.Select(ctx) directly.
CallSelect(p) == \E c \in Contexts : Begin(p, "Select", c, "rules")

\* A WrapSelect whose function runs Select in front of fn as it was given,
\* with no wrapper around it.
WrapSelectUnwrapped ==
    /\ ~wrapped.made
    /\ wrapped' = [made |-> TRUE, fn |-> <<>>]
    /\ UNCHANGED <<shedderVars, sideVars, groupVars, capacityVars, calls, procVars>>

\* shedder.WrapSelect(fn): the wrappers are applied now, once.
WrapSelect ==
    /\ ~wrapped.made
    /\ wrapped' = [made |-> TRUE, fn |-> WrapAll]
    /\ UNCHANGED <<shedderVars, sideVars, groupVars, capacityVars, calls, procVars>>

\* A caller invokes the function WrapSelect returned.
CallWrapped(p) ==
    /\ wrapped.made
    /\ \E c \in Contexts : Begin(p, "WrapSelect", c, "classify")

\* The classification step Do and the WrapSelect function start with.
ApplyClassifier(p) ==
    /\ pc[p] = "classify"
    /\ IF classifier # "nil"
       THEN /\ ctx' = [ctx EXCEPT ![p] = ClassificationToContext(@, Classify(@))]
            /\ Logged(p, <<Event("Classify", 0, Classify(ctx[p]), Zero)>>)
       ELSE UNCHANGED <<ctx, log>>
    /\ pc' = [pc EXCEPT ![p] = "rules"]
    /\ UNCHANGED <<shedderVars, sideVars, groupVars, capacityVars, wrapped, calls, mode, idx,
                   attempts, rate, usage, selectErr, fn, frames, ret>>

DoClassify(p) == mode[p] = "Do" /\ ApplyClassifier(p)

WrappedClassify(p) == mode[p] = "WrapSelect" /\ ApplyClassifier(p)

(* ------------------------------------------------------------------ *)
(* Shedder.Select                                                      *)
(* ------------------------------------------------------------------ *)

\* A rejection by a rule that also puts the rule's name in the Name field.
DeterministicRejectionNamed(r, c) ==
    ErrRejection(RuleName(r), ClassificationFromContext(c), RuleName(r), Zero, Zero, Zero)

\* A rejection by a rate with the usage and the likelihood exchanged.
ProbabilisticRejectionSwapped(c, name, u, l, rt) ==
    ErrRejection(RuleProbabilistic, ClassificationFromContext(c), name, l, u, rt)

\* The ErrRejection Select returns for a rule that rejects.
DeterministicRejection(r, c) ==
    ErrRejection(RuleName(r), ClassificationFromContext(c), "", Zero, Zero, Zero)

\* The ErrRejection Select returns for a rate that rejects.
ProbabilisticRejection(c, name, u, l, rt) ==
    ErrRejection(RuleProbabilistic, ClassificationFromContext(c), name, u, l, rt)

\* A comparison that also sheds when the dice roll equals the rate.
ShedsOnEqual(diceRoll, rt) == ~Less(rt, diceRoll)

\* The comparison of the dice roll with the rate.
Sheds(diceRoll, rt) == Less(diceRoll, rt)

\* A rule loop that notes a rejection and goes on to the rules after it,
\* returning what it noted once every rule has been asked.
SelectRuleNoReturn(p) ==
    /\ pc[p] = "rules"
    /\ IF idx[p] > Len(rules)
       THEN /\ pc' = [pc EXCEPT ![p] = IF selectErr[p] # Nil THEN "selected" ELSE "rates"]
            /\ idx' = [idx EXCEPT ![p] = 1]
            /\ UNCHANGED <<selectErr, log>>
       ELSE LET r == rules[idx[p]]
                class == ClassificationFromContext(ctx[p])
                called == Event("Reject", idx[p], class, Bool(Reject(r, ctx[p])))
            IN  /\ idx' = [idx EXCEPT ![p] = @ + 1]
                /\ Logged(p, <<called>>)
                /\ selectErr' = IF Reject(r, ctx[p]) /\ selectErr[p] = Nil
                                THEN [selectErr EXCEPT ![p] = DeterministicRejection(r, ctx[p])]
                                ELSE selectErr
                /\ UNCHANGED pc
    /\ UNCHANGED <<shedderVars, sideVars, groupVars, capacityVars, wrapped, calls, mode, ctx,
                   attempts, rate, usage, fn, frames, ret>>

\* A rule loop that leaves the loop on a rejection, and falls through to the
\* rates with the rejection in hand.
SelectRuleBreak(p) ==
    /\ pc[p] = "rules"
    /\ IF idx[p] > Len(rules)
       THEN /\ pc' = [pc EXCEPT ![p] = "rates"]
            /\ idx' = [idx EXCEPT ![p] = 1]
            /\ UNCHANGED <<selectErr, log>>
       ELSE LET r == rules[idx[p]]
                class == ClassificationFromContext(ctx[p])
                called == Event("Reject", idx[p], class, Bool(Reject(r, ctx[p])))
            IN  IF Reject(r, ctx[p])
                THEN /\ selectErr' = [selectErr EXCEPT ![p] = DeterministicRejection(r, ctx[p])]
                     /\ pc' = [pc EXCEPT ![p] = "rates"]
                     /\ idx' = [idx EXCEPT ![p] = 1]
                     /\ Logged(p, <<called, Event("RuleName", idx[p], class, Zero)>>)
                ELSE /\ idx' = [idx EXCEPT ![p] = @ + 1]
                     /\ Logged(p, <<called>>)
                     /\ UNCHANGED <<pc, selectErr>>
    /\ UNCHANGED <<shedderVars, sideVars, groupVars, capacityVars, wrapped, calls, mode, ctx,
                   attempts, rate, usage, fn, frames, ret>>

\* The rule loop: one iteration, or the fall-through to the rate loop.
SelectRule(p) ==
    /\ pc[p] = "rules"
    /\ IF idx[p] > Len(rules)
       THEN /\ pc' = [pc EXCEPT ![p] = "rates"]
            /\ idx' = [idx EXCEPT ![p] = 1]
            /\ UNCHANGED <<selectErr, log>>
       ELSE LET r == rules[idx[p]]
                class == ClassificationFromContext(ctx[p])
                called == Event("Reject", idx[p], class, Bool(Reject(r, ctx[p])))
            IN  IF Reject(r, ctx[p])
                THEN /\ selectErr' = [selectErr EXCEPT ![p] = DeterministicRejection(r, ctx[p])]
                     /\ pc' = [pc EXCEPT ![p] = "selected"]
                     /\ Logged(p, <<called, Event("RuleName", idx[p], class, Zero)>>)
                     /\ UNCHANGED idx
                ELSE /\ idx' = [idx EXCEPT ![p] = @ + 1]
                     /\ Logged(p, <<called>>)
                     /\ UNCHANGED <<pc, selectErr>>
    /\ UNCHANGED <<shedderVars, sideVars, groupVars, capacityVars, wrapped, calls, mode, ctx,
                   attempts, rate, usage, fn, frames, ret>>

\* Whether the next Usage call of p must first reduce the attempt window:
\* CapacityErrorRate.Usage reduces its two windows one after the other.
ReadsAttempts(p) ==
    /\ pc[p] \in {"rates", "usage", "likelihood", "reading"}
    /\ idx[p] <= Len(rejectionRates)
    /\ ~Fixed(rejectionRates[idx[p]])
    /\ rejectionRates[idx[p]].cap = defaultNameErrorRate
    /\ attempts[p] = NoRead

\* The first Reduce of CapacityErrorRate.Usage.
ReduceAttempts(p) ==
    /\ ReadsAttempts(p)
    /\ attempts' = [attempts EXCEPT ![p] = attemptReducer(invocations)]
    /\ UNCHANGED <<shedderVars, sideVars, groupVars, capacityVars, wrapped, calls, pc, mode,
                   ctx, idx, rate, usage, selectErr, fn, frames, ret, log>>

\* The rate loop: r.Rate(ctx), the dice roll and the comparison, or the
\* return of nil once every rate has been passed.
SelectRate(p) ==
    /\ pc[p] = "rates"
    /\ ~ReadsAttempts(p)
    /\ IF idx[p] > Len(rejectionRates)
       THEN /\ selectErr' = [selectErr EXCEPT ![p] = Nil]
            /\ pc' = [pc EXCEPT ![p] = "selected"]
            /\ UNCHANGED <<idx, rate, log>>
       ELSE LET r == rejectionRates[idx[p]]
                class == ClassificationFromContext(ctx[p])
                rt == Rate(r, ctx[p], attempts[p])
            IN  \E diceRoll \in Draws :
                    /\ Logged(p, <<Event("Rate", idx[p], class, rt),
                                   Event("randFloat", idx[p], class, diceRoll)>>)
                    /\ IF Sheds(diceRoll, rt)
                       THEN /\ rate' = [rate EXCEPT ![p] = rt]
                            /\ pc' = [pc EXCEPT ![p] = "usage"]
                            /\ UNCHANGED <<idx, selectErr>>
                       ELSE /\ idx' = [idx EXCEPT ![p] = @ + 1]
                            /\ UNCHANGED <<pc, rate, selectErr>>
    /\ attempts' = [attempts EXCEPT ![p] = NoRead]
    /\ UNCHANGED <<shedderVars, sideVars, groupVars, capacityVars, wrapped, calls, mode, ctx,
                   usage, fn, frames, ret>>

\* The Usage field of the ErrRejection: r.Usage(ctx).
SelectUsage(p) ==
    /\ pc[p] = "usage"
    /\ ~ReadsAttempts(p)
    /\ LET r == rejectionRates[idx[p]]
           u == Usage(r, attempts[p])
       IN  /\ usage' = [usage EXCEPT ![p] = u]
           /\ Logged(p, <<Event("Name", idx[p], ClassificationFromContext(ctx[p]), Zero),
                          Event("Usage", idx[p], ClassificationFromContext(ctx[p]), u)>>)
    /\ pc' = [pc EXCEPT ![p] = "likelihood"]
    /\ attempts' = [attempts EXCEPT ![p] = NoRead]
    /\ UNCHANGED <<shedderVars, sideVars, groupVars, capacityVars, wrapped, calls, mode, ctx,
                   idx, rate, selectErr, fn, frames, ret>>

\* The Likelihood and Rate fields, and the return of the ErrRejection.
SelectLikelihood(p) ==
    /\ pc[p] = "likelihood"
    /\ ~ReadsAttempts(p)
    /\ LET r == rejectionRates[idx[p]]
           l == Likelihood(r, attempts[p])
       IN  /\ selectErr' = [selectErr EXCEPT ![p] =
                  ProbabilisticRejection(ctx[p], Name(r), usage[p], l, rate[p])]
           /\ Logged(p, <<Event("Likelihood", idx[p], ClassificationFromContext(ctx[p]), l)>>)
    /\ pc' = [pc EXCEPT ![p] = "selected"]
    /\ attempts' = [attempts EXCEPT ![p] = NoRead]
    /\ UNCHANGED <<shedderVars, sideVars, groupVars, capacityVars, wrapped, calls, mode, ctx,
                   idx, rate, usage, fn, frames, ret>>

\* A Select that, having found nothing to reject, goes on to wrap and call
\* as Do does.
SelectReturnCalls(p) ==
    /\ pc[p] = "selected"
    /\ mode[p] = "Select"
    /\ IF selectErr[p] # Nil
       THEN /\ ret' = [ret EXCEPT ![p] = selectErr[p]]
            /\ pc' = [pc EXCEPT ![p] = "done"]
            /\ UNCHANGED fn
       ELSE /\ fn' = [fn EXCEPT ![p] = WrapAll]
            /\ pc' = [pc EXCEPT ![p] = "call"]
            /\ UNCHANGED ret
    /\ UNCHANGED <<shedderVars, sideVars, groupVars, capacityVars, wrapped, calls, mode, ctx,
                   idx, attempts, rate, usage, selectErr, frames, log>>

\* Select returns to a caller that invoked it directly.
SelectReturn(p) ==
    /\ pc[p] = "selected"
    /\ mode[p] = "Select"
    /\ ret' = [ret EXCEPT ![p] = selectErr[p]]
    /\ pc' = [pc EXCEPT ![p] = "done"]
    /\ UNCHANGED <<shedderVars, sideVars, groupVars, capacityVars, wrapped, calls, mode, ctx,
                   idx, attempts, rate, usage, selectErr, fn, frames, log>>

\* A Do that wraps and calls fn whatever Select returned.
DoSelectedCallsAnyway(p) ==
    /\ pc[p] = "selected"
    /\ mode[p] = "Do"
    /\ fn' = [fn EXCEPT ![p] = WrapAll]
    /\ Logged(p, [k \in 1 .. Len(WrapAll) |-> Event("Wrap", WrapAll[k], EmptyClass, Zero)])
    /\ pc' = [pc EXCEPT ![p] = "call"]
    /\ UNCHANGED <<shedderVars, sideVars, groupVars, capacityVars, wrapped, calls, mode, ctx,
                   idx, attempts, rate, usage, selectErr, frames, ret>>

\* Do after Select: return the rejection, or wrap fn and go on to call it.
DoSelectedRunsRejected(p) ==
    /\ pc[p] = "selected"
    /\ mode[p] = "Do"
    /\ fn' = [fn EXCEPT ![p] = WrapAll]
    /\ Logged(p, [k \in 1 .. Len(WrapAll) |-> Event("Wrap", WrapAll[k], EmptyClass, Zero)])
    /\ pc' = [pc EXCEPT ![p] = "call"]
    /\ UNCHANGED <<shedderVars, sideVars, groupVars, capacityVars, wrapped, calls, mode, ctx,
                   idx, attempts, rate, usage, selectErr, frames, ret>>

DoSelected(p) ==
    /\ pc[p] = "selected"
    /\ mode[p] = "Do"
    /\ IF selectErr[p] # Nil
       THEN /\ ret' = [ret EXCEPT ![p] = selectErr[p]]
            /\ pc' = [pc EXCEPT ![p] = "done"]
            /\ UNCHANGED <<fn, log>>
       ELSE /\ fn' = [fn EXCEPT ![p] = WrapAll]
            /\ Logged(p, [k \in 1 .. Len(WrapAll) |->
                             Event("Wrap", WrapAll[k], EmptyClass, Zero)])
            /\ pc' = [pc EXCEPT ![p] = "call"]
            /\ UNCHANGED ret
    /\ UNCHANGED <<shedderVars, sideVars, groupVars, capacityVars, wrapped, calls, mode, ctx,
                   idx, attempts, rate, usage, selectErr, frames>>

\* A WrapSelect function that calls the wrapped function whatever Select
\* returned.
WrappedSelectedCallsAnyway(p) ==
    /\ pc[p] = "selected"
    /\ mode[p] = "WrapSelect"
    /\ fn' = [fn EXCEPT ![p] = wrapped.fn]
    /\ pc' = [pc EXCEPT ![p] = "call"]
    /\ UNCHANGED <<shedderVars, sideVars, groupVars, capacityVars, wrapped, calls, mode, ctx,
                   idx, attempts, rate, usage, selectErr, frames, ret, log>>

\* The WrapSelect function after Select: return the rejection, or call the
\* function that was wrapped when WrapSelect ran.
WrappedSelected(p) ==
    /\ pc[p] = "selected"
    /\ mode[p] = "WrapSelect"
    /\ IF selectErr[p] # Nil
       THEN /\ ret' = [ret EXCEPT ![p] = selectErr[p]]
            /\ pc' = [pc EXCEPT ![p] = "done"]
            /\ UNCHANGED fn
       ELSE /\ fn' = [fn EXCEPT ![p] = wrapped.fn]
            /\ pc' = [pc EXCEPT ![p] = "call"]
            /\ UNCHANGED ret
    /\ UNCHANGED <<shedderVars, sideVars, groupVars, capacityVars, wrapped, calls, mode, ctx,
                   idx, attempts, rate, usage, selectErr, frames, log>>

(* ------------------------------------------------------------------ *)
(* The wrapped function: the Wrap decorators and the action            *)
(* ------------------------------------------------------------------ *)

Frame(j) == [j |-> j, elapsed |-> 0, stage |-> 0]

Top(p) == frames[p][Len(frames[p])]

Push(p, f) == frames' = [frames EXCEPT ![p] = Append(@, f)]

\* The wrapper on top returns: its frame is dropped and, once the last
\* wrapper has returned, Do (or the WrapSelect function) returns.
Pop(p) ==
    /\ frames' = [frames EXCEPT ![p] = SubSeq(@, 1, Len(@) - 1)]
    /\ pc' = [pc EXCEPT ![p] = IF Len(frames[p]) = 1 THEN "done" ELSE "unwind"]

\* A Wrap closure that calls fn and returns nil.
WrapResultNil(e) == IF e = Panic THEN e ELSE Nil

\* What every Wrap closure returns: the error fn returned, as it is.
WrapResult(e) == e

\* staticCountingRate.Wrap: count the call, then call fn.
StaticEnter(p, j) ==
    /\ count' = count + 1
    /\ Logged(p, <<Event("enter", j, EmptyClass, Zero), Measured(j, "count", One)>>)
    /\ UNCHANGED <<current, landing, invocations, errors, window>>

\* A CapacityConcurrency.Wrap that stores the count of its own invocation
\* over the counter where it should add to it.
CapacityConcurrencyEnterStores(p, j) ==
    /\ current' = 1
    /\ Logged(p, <<Event("enter", j, EmptyClass, Zero), Measured(j, "Add", One)>>)
    /\ UNCHANGED <<landing, invocations, errors, window, count>>

\* CapacityConcurrency.Wrap before fn: self.Add(1).
CapacityConcurrencyEnter(p, j) ==
    /\ current' = current + 1
    /\ Logged(p, <<Event("enter", j, EmptyClass, Zero), Measured(j, "Add", One)>>)
    /\ UNCHANGED <<landing, invocations, errors, window, count>>

\* A CapacityLandingRate.Wrap that calls fn without recording the landing.
CapacityLandingRateEnterSilent(p, j) ==
    /\ Logged(p, <<Event("enter", j, EmptyClass, Zero)>>)
    /\ UNCHANGED capacityVars

\* CapacityLandingRate.Wrap before fn: one sample.
CapacityLandingRateEnter(p, j) ==
    /\ landing' = WindowAppend(landing, 1)
    /\ Logged(p, <<Event("enter", j, EmptyClass, Zero), Measured(j, "landing", One)>>)
    /\ UNCHANGED <<current, invocations, errors, window, count>>

\* CapacityErrorRate.Wrap and CapacityLatency.Wrap before fn: nothing is
\* recorded yet (the latency wrapper takes its start time).
QuietEnter(p, j) ==
    /\ Logged(p, <<Event("enter", j, EmptyClass, Zero)>>)
    /\ UNCHANGED capacityVars

WrapEnter(p) ==
    /\ pc[p] = "call"
    /\ Len(frames[p]) < Len(fn[p])
    /\ LET j == fn[p][Len(fn[p]) - Len(frames[p])]
           r == rejectionRates[j]
       IN  /\ CASE r.kind = "static" -> StaticEnter(p, j)
                 [] r.cap = defaultNameConcurrency -> CapacityConcurrencyEnter(p, j)
                 [] r.cap = defaultNameLandingRate -> CapacityLandingRateEnter(p, j)
                 [] OTHER -> QuietEnter(p, j)
           /\ Push(p, Frame(j))
    /\ UNCHANGED <<shedderVars, sideVars, groupVars, wrapped, calls, pc, mode, ctx, idx,
                   attempts, rate, usage, selectErr, fn, ret>>

\* The action itself runs, inside every wrapper: it returns nil, returns an
\* error of its own, or panics.
RunAction(p) ==
    /\ pc[p] = "call"
    /\ Len(frames[p]) = Len(fn[p])
    /\ \E outcome \in Outcomes :
           /\ ret' = [ret EXCEPT ![p] = outcome]
           /\ Logged(p, <<Event("fn", 0, ClassificationFromContext(ctx[p]), Zero),
                          Event("returned", 0, outcome.type, Zero)>>)
    /\ pc' = [pc EXCEPT ![p] = IF fn[p] = <<>> THEN "done" ELSE "unwind"]
    /\ UNCHANGED <<shedderVars, sideVars, groupVars, capacityVars, wrapped, calls, mode, ctx,
                   idx, attempts, rate, usage, selectErr, fn, frames>>

\* staticCountingRate.Wrap and CapacityLandingRate.Wrap after fn: return.
QuietExit(p, j) ==
    /\ Logged(p, <<Event("exit", j, EmptyClass, Zero)>>)
    /\ Pop(p)
    /\ UNCHANGED capacityVars

\* A CapacityConcurrency.Wrap that calls Done after fn without deferring
\* it: a panic passes the call by.
CapacityConcurrencyExitNoDefer(p, j) ==
    /\ IF ret[p] = Panic
       THEN /\ Logged(p, <<Event("exit", j, EmptyClass, Zero)>>)
            /\ UNCHANGED current
       ELSE /\ current' = current - 1
            /\ Logged(p, <<Measured(j, "Done", One), Event("exit", j, EmptyClass, Zero)>>)
    /\ Pop(p)
    /\ UNCHANGED <<landing, invocations, errors, window, count>>

\* CapacityConcurrency.Wrap after fn: the deferred self.Done(1).
CapacityConcurrencyExit(p, j) ==
    /\ current' = current - 1
    /\ Logged(p, <<Measured(j, "Done", One), Event("exit", j, EmptyClass, Zero)>>)
    /\ Pop(p)
    /\ UNCHANGED <<landing, invocations, errors, window, count>>

\* A CapacityErrorRate.Wrap whose deferred function looks at the returned
\* error only: a panic counts as an attempt and not as an error.
CapacityErrorRateExitErrorOnly(p, j) ==
    LET failed == ret[p] = ActionError
    IN  IF Top(p).stage = 0
        THEN /\ invocations' = WindowAppend(invocations, 1)
             /\ IF failed
                THEN /\ frames' = [frames EXCEPT ![p][Len(frames[p])].stage = 1]
                     /\ Logged(p, <<Measured(j, "invocations", One)>>)
                     /\ UNCHANGED pc
                ELSE /\ Logged(p, <<Measured(j, "invocations", One),
                                    Event("exit", j, EmptyClass, Zero)>>)
                     /\ Pop(p)
             /\ UNCHANGED <<current, landing, errors, window, count>>
        ELSE /\ errors' = WindowAppend(errors, 1)
             /\ Logged(p, <<Measured(j, "errors", One), Event("exit", j, EmptyClass, Zero)>>)
             /\ Pop(p)
             /\ UNCHANGED <<current, landing, invocations, window, count>>

\* CapacityErrorRate.Wrap after fn, the deferred function: one attempt
\* sample and then, when fn returned an error or panicked, one error sample.
CapacityErrorRateExit(p, j) ==
    LET failed == ret[p] # Nil
    IN  IF Top(p).stage = 0
        THEN /\ invocations' = WindowAppend(invocations, 1)
             /\ IF failed
                THEN /\ frames' = [frames EXCEPT ![p][Len(frames[p])].stage = 1]
                     /\ Logged(p, <<Measured(j, "invocations", One)>>)
                     /\ UNCHANGED pc
                ELSE /\ Logged(p, <<Measured(j, "invocations", One),
                                    Event("exit", j, EmptyClass, Zero)>>)
                     /\ Pop(p)
             /\ UNCHANGED <<current, landing, errors, window, count>>
        ELSE /\ errors' = WindowAppend(errors, 1)
             /\ Logged(p, <<Measured(j, "errors", One), Event("exit", j, EmptyClass, Zero)>>)
             /\ Pop(p)
             /\ UNCHANGED <<current, landing, invocations, window, count>>

\* A CapacityLatency.Wrap that appends the duration in a deferred function
\* whatever the option says.
CapacityLatencyExitDeferred(p, j) ==
    /\ window' = WindowAppend(window, Top(p).elapsed)
    /\ Logged(p, <<Measured(j, "window", Frac(Top(p).elapsed, 1)),
                   Event("exit", j, EmptyClass, Zero)>>)
    /\ Pop(p)
    /\ UNCHANGED <<current, landing, invocations, errors, count>>

\* CapacityLatency.Wrap after fn: the duration is appended after a return,
\* and after a panic only when measurePanics is set (the deferred branch).
CapacityLatencyExit(p, j) ==
    /\ IF measurePanics \/ ret[p] # Panic
       THEN /\ window' = WindowAppend(window, Top(p).elapsed)
            /\ Logged(p, <<Measured(j, "window", Frac(Top(p).elapsed, 1)),
                           Event("exit", j, EmptyClass, Zero)>>)
       ELSE /\ Logged(p, <<Event("exit", j, EmptyClass, Zero)>>)
            /\ UNCHANGED window
    /\ Pop(p)
    /\ UNCHANGED <<current, landing, invocations, errors, count>>

WrapExit(p) ==
    /\ pc[p] = "unwind"
    /\ LET j == Top(p).j
           r == rejectionRates[j]
       IN  CASE r.kind = "static" -> QuietExit(p, j)
             [] r.cap = defaultNameConcurrency -> CapacityConcurrencyExit(p, j)
             [] r.cap = defaultNameLandingRate -> QuietExit(p, j)
             [] r.cap = defaultNameErrorRate -> CapacityErrorRateExit(p, j)
             [] r.cap = defaultNameLatency -> CapacityLatencyExit(p, j)
    /\ ret' = [ret EXCEPT ![p] = WrapResult(@)]
    /\ UNCHANGED <<shedderVars, sideVars, groupVars, wrapped, calls, mode, ctx, idx, attempts, rate,
                   usage, selectErr, fn>>

(* ------------------------------------------------------------------ *)
(* Time                                                                *)
(* ------------------------------------------------------------------ *)

Timed(f) == rejectionRates[f.j].kind = "curve" /\ rejectionRates[f.j].cap = defaultNameLatency

Windowed(r) == r.kind = "curve" /\ r.cap # defaultNameConcurrency

\* Whether the next step of p appends to a window, reduces one or ends a
\* latency measurement. Time that passes before any other step has the
\* effect of the same time passing after it.
ReadsClock(p) ==
    \/ /\ pc[p] \in {"rates", "usage", "likelihood", "reading"}
       /\ idx[p] <= Len(rejectionRates)
       /\ Windowed(rejectionRates[idx[p]])
    \/ /\ pc[p] = "call"
       /\ Len(frames[p]) < Len(fn[p])
       /\ Windowed(rejectionRates[fn[p][Len(fn[p]) - Len(frames[p])]])
    \/ /\ pc[p] = "unwind"
       /\ Windowed(rejectionRates[Top(p).j])

\* One bucket duration passes: every window slides by one bucket and every
\* running latency measurement grows by one.
Tick ==
    /\ \E p \in Procs : ReadsClock(p)
    /\ \A p \in Procs : \A k \in DOMAIN frames[p] :
           Timed(frames[p][k]) => frames[p][k].elapsed < MaxElapsed
    /\ landing' = WindowSlide(landing)
    /\ invocations' = WindowSlide(invocations)
    /\ errors' = WindowSlide(errors)
    /\ window' = WindowSlide(window)
    /\ frames' = [p \in Procs |-> [k \in DOMAIN frames[p] |->
                     IF Timed(frames[p][k])
                     THEN [frames[p][k] EXCEPT !.elapsed = @ + 1]
                     ELSE frames[p][k]]]
    /\ UNCHANGED <<shedderVars, sideVars, groupVars, current, count, wrapped, calls, pc, mode,
                   ctx, idx, attempts, rate, usage, selectErr, fn, ret, log>>

(* ------------------------------------------------------------------ *)
(* CapacityWaitGroup                                                   *)
(* ------------------------------------------------------------------ *)

\* A CapacityWaitGroup used directly, as a sync.WaitGroup is: one goroutine
\* adds work, starts a worker per unit and waits; every worker ends with
\* Done. No Shedder is involved.
InitWaitGroupSpec ==
    /\ InitGroup
    /\ InitSide
    /\ rules = <<>> /\ rejectionRates = <<>> /\ classifier = "nil"
    /\ measurePanics = FALSE
    /\ minimumPoints = 0
    /\ limit = Limit
    /\ active = {}
    /\ InitCapacities
    /\ InitProcs

\* CapacityWaitGroup.Add(delta), first statement: self.wg.Add(delta). The
\* workers the units are for are idle ones.
CapacityWaitGroupAdd ==
    /\ waiter.pc \in {"idle", "added", "read"}
    /\ calls < MaxAdds
    /\ \E started \in SUBSET {p \in Procs : worker[p] = "idle"} :
           /\ started # {}
           /\ wg' = wg + Cardinality(started)
           /\ waiter' = [pc |-> "add", started |-> started]
    /\ calls' = calls + 1
    /\ UNCHANGED <<shedderVars, sideVars, capacityVars, wrapped, procVars, worker, observed>>

\* CapacityWaitGroup.Add(delta), second statement:
\* self.CapacityConcurrency.Add(int32(delta)); Add returns and the caller
\* starts the workers.
CapacityWaitGroupAddCount ==
    /\ waiter.pc = "add"
    /\ current' = current + Cardinality(waiter.started)
    /\ worker' = [p \in Procs |-> IF p \in waiter.started THEN "running" ELSE worker[p]]
    /\ waiter' = [pc |-> "added", started |-> {}]
    /\ UNCHANGED <<shedderVars, sideVars, landing, invocations, errors, window, count, wrapped,
                   calls, procVars, wg, observed>>

\* CapacityWaitGroup.Done(), first statement: self.wg.Done().
CapacityWaitGroupDone(p) ==
    /\ worker[p] = "running"
    /\ wg' = wg - 1
    /\ worker' = [worker EXCEPT ![p] = "done"]
    /\ UNCHANGED <<shedderVars, sideVars, capacityVars, wrapped, calls, procVars, waiter, observed>>

\* CapacityWaitGroup.Done(), second statement:
\* self.CapacityConcurrency.Done(1); Done returns and the worker ends.
CapacityWaitGroupDoneCount(p) ==
    /\ worker[p] = "done"
    /\ current' = current - 1
    /\ worker' = [worker EXCEPT ![p] = "idle"]
    /\ UNCHANGED <<shedderVars, sideVars, landing, invocations, errors, window, count, wrapped,
                   calls, procVars, wg, waiter, observed>>

\* A Wait that returns once the concurrency counter is zero.
CapacityWaitGroupWaitCounter ==
    /\ waiter.pc = "added"
    /\ current = 0
    /\ waiter' = [waiter EXCEPT !.pc = "waited"]
    /\ UNCHANGED <<shedderVars, sideVars, capacityVars, wrapped, calls, procVars, wg, worker,
                   observed>>

\* CapacityWaitGroup.Wait(): self.wg.Wait() returns once the counter of the
\* wait group is zero.
CapacityWaitGroupWait ==
    /\ waiter.pc = "added"
    /\ wg = 0
    /\ waiter' = [waiter EXCEPT !.pc = "waited"]
    /\ UNCHANGED <<shedderVars, sideVars, capacityVars, wrapped, calls, procVars, wg, worker,
                   observed>>

\* The goroutine that waited reads Usage.
CapacityWaitGroupUsage ==
    /\ waiter.pc = "waited"
    /\ observed' = CapacityConcurrencyUsage
    /\ waiter' = [waiter EXCEPT !.pc = "read"]
    /\ UNCHANGED <<shedderVars, sideVars, capacityVars, wrapped, calls, procVars, wg, worker>>

NextWaitGroup ==
    \/ CapacityWaitGroupAdd
    \/ CapacityWaitGroupAddCount
    \/ \E p \in Procs :
           \/ CapacityWaitGroupDone(p)
           \/ CapacityWaitGroupDoneCount(p)
    \/ CapacityWaitGroupWait
    \/ CapacityWaitGroupUsage

(* ------------------------------------------------------------------ *)
(* One capacity used on its own, as its tests use it                   *)
(* ------------------------------------------------------------------ *)

\* c := NewCapacity...(...) with the limit Limit; CapacityErrorRate with or
\* without OptionErrorRateMinimumPoints(Points), CapacityLatency with or
\* without OptionLatencyMeasurePanics. The capacity stands at index 1.
InitCapacityTestSpec ==
    /\ InitGroup
    /\ InitSide
    /\ rules = <<>>
    /\ rejectionRates \in {<<r>> : r \in CapacityRates}
    /\ classifier = "nil"
    /\ measurePanics \in (IF Registered(defaultNameLatency) THEN BOOLEAN ELSE {FALSE})
    /\ minimumPoints \in (IF Registered(defaultNameErrorRate) THEN {0, Points} ELSE {0})
    /\ limit = Limit
    /\ active = {1}
    /\ InitCapacities
    /\ InitProcs

\* w := c.Wrap(fn); w(ctx): the wrapped function is called directly. The
\* events of the earlier calls are kept.
TestWrapCall(p) ==
    /\ p \in active
    /\ pc[p] \in {"idle", "done"}
    /\ calls < MaxRuns
    /\ calls' = calls + 1
    /\ pc' = [pc EXCEPT ![p] = "call"]
    /\ fn' = [fn EXCEPT ![p] = RateWrap(rejectionRates[1], 1, <<>>)]
    /\ frames' = [frames EXCEPT ![p] = <<>>]
    /\ ret' = [ret EXCEPT ![p] = Nil]
    /\ UNCHANGED <<shedderVars, sideVars, groupVars, capacityVars, wrapped, mode, ctx, idx,
                   attempts, rate, usage, selectErr, log>>

\* c.Usage(ctx) is called.
TestUsageCall(p) ==
    /\ p \in active
    /\ pc[p] \in {"idle", "done"}
    /\ pc' = [pc EXCEPT ![p] = "reading"]
    /\ attempts' = [attempts EXCEPT ![p] = NoRead]
    /\ UNCHANGED <<shedderVars, sideVars, groupVars, capacityVars, wrapped, calls, mode, ctx, idx,
                   rate, usage, selectErr, fn, frames, ret, log>>

\* c.Usage(ctx) returns.
TestUsageReturn(p) ==
    /\ pc[p] = "reading"
    /\ ~ReadsAttempts(p)
    /\ observed' = CapacityUsage(rejectionRates[1].cap, attempts[p])
    /\ pc' = [pc EXCEPT ![p] = "idle"]
    /\ attempts' = [attempts EXCEPT ![p] = NoRead]
    /\ UNCHANGED <<shedderVars, sideVars, capacityVars, wrapped, calls, mode, ctx, idx, rate, usage,
                   selectErr, fn, frames, ret, log, wg, waiter, worker>>

\* time.Sleep for the whole window duration (bucket count times bucket
\* duration) while no invocation is in progress.
TestSleep(p) ==
    /\ p \in active
    /\ pc[p] \in {"idle", "done"}
    /\ \A q \in Procs : frames[q] = <<>>
    /\ log[p] # <<>> /\ log[p][Len(log[p])].ev # "Sleep"
    /\ landing' = WindowExpire(landing, Buckets)
    /\ invocations' = WindowExpire(invocations, Buckets)
    /\ errors' = WindowExpire(errors, Buckets)
    /\ window' = WindowExpire(window, Buckets)
    /\ Logged(p, <<Event("Sleep", 0, EmptyClass, Zero)>>)
    /\ UNCHANGED <<shedderVars, sideVars, groupVars, current, count, wrapped, calls, pc, mode,
                   ctx, idx, attempts, rate, usage, selectErr, fn, frames, ret>>

NextCapacityTest ==
    \/ \E p \in Procs :
           \/ TestWrapCall(p)
           \/ TestSleep(p)
           \/ WrapEnter(p)
           \/ RunAction(p)
           \/ WrapExit(p)
           \/ TestUsageCall(p)
           \/ ReduceAttempts(p)
           \/ TestUsageReturn(p)
    \/ Tick

(* ------------------------------------------------------------------ *)
(* CapacityThrottle                                                    *)
(* ------------------------------------------------------------------ *)

\* a := NewCapacityThrottle(wrapped, d) over a CapacityConcurrency or over
\* the capCounter of the tests, used by every process. The throttle stands
\* at index 1.
InitThrottleSpec ==
    /\ InitGroup
    /\ \E d \in 1 .. MaxDuration : InitThrottle(d)
    /\ InitCurve(Zero, One, 1)
    /\ InitHandler("default", {})
    /\ InitTransport("nil", {})
    /\ rules = <<>>
    /\ rejectionRates \in {<<r>> : r \in ThrottledRates}
    /\ classifier = "nil"
    /\ measurePanics = FALSE
    /\ minimumPoints = 0
    /\ limit = Limit
    /\ active = Procs
    /\ InitCapacities
    /\ InitProcs

\* self.since(self.last).
since(t) == clock - t

\* self.Capacity.Usage(ctx) of the throttle.
WrappedUsage ==
    IF rejectionRates[1].cap = nameCounter THEN One
    ELSE CapacityUsage(rejectionRates[1].cap, NoRead)

\* A Lock that never waits: the mutex is taken whoever holds it.
ThrottleLockNoWait(p) ==
    /\ p \in active
    /\ pc[p] \in {"idle", "done"}
    /\ calls < MaxReads
    /\ calls' = calls + 1
    /\ lock' = p
    /\ pc' = [pc EXCEPT ![p] = "locked"]
    /\ UNCHANGED <<shedderVars, curveVars, handlerVars, transportVars, groupVars, capacityVars,
                   wrapped, mode, ctx, idx, attempts, rate, usage, selectErr, fn, frames, ret,
                   log, duration, last, cache, clock, refreshes>>

\* CapacityThrottle.Usage is called and self.lock.Lock() returns.
ThrottleLock(p) ==
    /\ p \in active
    /\ pc[p] \in {"idle", "done"}
    /\ calls < MaxReads
    /\ lock = Unlocked
    /\ calls' = calls + 1
    /\ lock' = p
    /\ pc' = [pc EXCEPT ![p] = "locked"]
    /\ UNCHANGED <<shedderVars, curveVars, handlerVars, transportVars, groupVars, capacityVars,
                   wrapped, mode, ctx, idx, attempts, rate, usage, selectErr, fn, frames, ret,
                   log, duration, last, cache, clock, refreshes>>

\* A check that refreshes only once the duration has been exceeded.
ExpiredStrictly == since(last) > duration

\* if self.since(self.last) >= self.duration
Expired == since(last) >= duration

\* The check of the timestamp: the wrapped Usage is called when the cache
\* has expired.
ThrottleCheck(p) ==
    /\ pc[p] = "locked"
    /\ pc' = [pc EXCEPT ![p] = IF Expired THEN "delegating" ELSE "cached"]
    /\ UNCHANGED <<shedderVars, sideVars, groupVars, capacityVars, wrapped, calls, mode,
                   ctx, idx, attempts, rate, usage, selectErr, fn, frames, ret, log>>

\* self.cache = self.Capacity.Usage(ctx): the wrapped Usage returns.
ThrottleDelegate(p) ==
    /\ pc[p] = "delegating"
    /\ cache' = WrappedUsage
    /\ refreshes' = Append(refreshes, [at |-> clock, val |-> WrappedUsage, by |-> p])
    /\ pc' = [pc EXCEPT ![p] = "refreshed"]
    /\ UNCHANGED <<shedderVars, curveVars, handlerVars, transportVars, groupVars, capacityVars,
                   wrapped, calls, mode, ctx, idx, attempts, rate, usage, selectErr, fn,
                   frames, ret, log, duration, lock, last, clock>>

\* A Usage that refreshes the cache and leaves the timestamp as it was.
ThrottleStampSkipped(p) ==
    /\ pc[p] = "refreshed"
    /\ pc' = [pc EXCEPT ![p] = "cached"]
    /\ UNCHANGED <<shedderVars, curveVars, handlerVars, transportVars, groupVars,
                   capacityVars, wrapped, calls, mode, ctx, idx, attempts, rate, usage,
                   selectErr, fn, frames, ret, log, throttleVars>>

\* self.last = time.Now()
ThrottleStamp(p) ==
    /\ pc[p] = "refreshed"
    /\ last' = clock
    /\ pc' = [pc EXCEPT ![p] = "cached"]
    /\ UNCHANGED <<shedderVars, curveVars, handlerVars, transportVars, groupVars, capacityVars,
                   wrapped, calls, mode, ctx, idx, attempts, rate, usage, selectErr, fn,
                   frames, ret, log, duration, lock, cache, clock, refreshes>>

\* return self.cache, and the deferred self.lock.Unlock().
ThrottleReturn(p) ==
    /\ pc[p] = "cached"
    /\ usage' = [usage EXCEPT ![p] = cache]
    /\ lock' = IF lock = p THEN Unlocked ELSE lock
    /\ pc' = [pc EXCEPT ![p] = "done"]
    /\ UNCHANGED <<shedderVars, curveVars, handlerVars, transportVars, groupVars, capacityVars,
                   wrapped, calls, mode, ctx, idx, attempts, rate, selectErr, fn, frames, ret,
                   log, duration, last, cache, clock, refreshes>>

\* The clock advances by one step.
ThrottleTick ==
    /\ clock < MaxTime
    /\ clock' = clock + 1
    /\ UNCHANGED <<shedderVars, curveVars, handlerVars, transportVars, groupVars, capacityVars,
                   wrapped, calls, procVars, duration, lock, last, cache, refreshes>>

NextThrottle ==
    \/ \E p \in Procs :
           \/ ThrottleLock(p)
           \/ ThrottleCheck(p)
           \/ ThrottleDelegate(p)
           \/ ThrottleStamp(p)
           \/ ThrottleReturn(p)
           \/ TestWrapCall(p)
           \/ WrapEnter(p)
           \/ RunAction(p)
           \/ WrapExit(p)
    \/ ThrottleTick

(* ------------------------------------------------------------------ *)
(* Specification                                                       *)
(* ------------------------------------------------------------------ *)

Next ==
    \/ \E p \in Procs :
           \/ CallDo(p)
           \/ CallSelect(p)
           \/ CallWrapped(p)
           \/ DoClassify(p)
           \/ WrappedClassify(p)
           \/ SelectRule(p)
           \/ ReduceAttempts(p)
           \/ SelectRate(p)
           \/ SelectUsage(p)
           \/ SelectLikelihood(p)
           \/ SelectReturn(p)
           \/ DoSelected(p)
           \/ WrappedSelected(p)
           \/ WrapEnter(p)
           \/ RunAction(p)
           \/ WrapExit(p)
    \/ WrapSelect
    \/ Tick

Spec == Init /\ [][Next]_vars

SpecCapacities == InitCapacitySpec /\ [][Next]_vars

\* Concurrent callers of Do and of the function WrapSelect returned.
NextConcurrent ==
    \/ \E p \in Procs :
           \/ CallDo(p)
           \/ CallWrapped(p)
           \/ DoClassify(p)
           \/ WrappedClassify(p)
           \/ SelectRule(p)
           \/ SelectRate(p)
           \/ SelectUsage(p)
           \/ SelectLikelihood(p)
           \/ DoSelected(p)
           \/ WrappedSelected(p)
           \/ WrapEnter(p)
           \/ RunAction(p)
           \/ WrapExit(p)
    \/ WrapSelect

SpecConcurrent == InitConcurrentSpec /\ [][NextConcurrent]_vars

SpecWaitGroup == InitWaitGroupSpec /\ [][NextWaitGroup]_vars

\* One CapacityThrottle, every process calling its Usage and the function
\* its Wrap returned.
SpecThrottle == InitThrottleSpec /\ [][NextThrottle]_vars

\* One capacity, one caller: calls of the wrapped function and of Usage.
SpecCapacityTest == InitCapacityTestSpec /\ [][NextCapacityTest]_vars

(* ------------------------------------------------------------------ *)
(* Properties                                                          *)
(* ------------------------------------------------------------------ *)

\* The calls of one kind an invocation has made so far, in order.
Calls(p, ev) == SelectSeq(log[p], LAMBDA e : e.ev = ev)

\* Select has returned to the invocation of p.
Decided(p) == pc[p] \in {"selected", "call", "unwind", "done"}

\* The index of the first registered rule that rejects the context of p,
\* 0 when none does.
FirstRejecting(p) ==
    IF \E i \in DOMAIN rules : Reject(rules[i], ctx[p])
    THEN CHOOSE i \in DOMAIN rules :
             /\ Reject(rules[i], ctx[p])
             /\ \A j \in 1 .. i - 1 : ~Reject(rules[j], ctx[p])
    ELSE 0

\* Some Reject call of the invocation returned true.
RuleRejected(p) == \E k \in DOMAIN Calls(p, "Reject") : Calls(p, "Reject")[k].val = One

\* Some draw of the invocation was strictly less than the rate it was
\* compared with.
RateRejected(p) ==
    \E k \in DOMAIN Calls(p, "Rate") :
        Less(Calls(p, "randFloat")[k].val, Calls(p, "Rate")[k].val)

Rejected(p) == RuleRejected(p) \/ RateRejected(p)

\* Some rate was consulted or the random source was invoked.
RatesConsulted(p) ==
    \E k \in DOMAIN log[p] :
        log[p][k].ev \in {"Rate", "randFloat", "Name", "Usage", "Likelihood"}

\* C1: Select asks the rules in registration order; the first rule whose
\* Reject returns true decides: the ErrRejection returned has that rule's
\* name in its Rule field, and no rule registered after it is asked.
C1_FirstRuleDecides ==
    \A p \in Procs :
        LET asked == Calls(p, "Reject")
            m == FirstRejecting(p)
        IN  /\ \A k \in DOMAIN asked : asked[k].i = k
            /\ \A k \in DOMAIN asked : asked[k].val = Bool(Reject(rules[k], ctx[p]))
            /\ (pc[p] # "idle" /\ m # 0) => Len(asked) <= m
            /\ (Decided(p) /\ m # 0) =>
                   /\ Len(asked) = m
                   /\ selectErr[p].type = "ErrRejection"
                   /\ selectErr[p].Rule = RuleName(rules[m])
                   /\ pc[p] \in {"selected", "done"}
                   /\ pc[p] = "done" => ret[p] = selectErr[p]

\* Select returned the rejection of the first of two rules that both
\* reject, the second one under another name.
C1_Witness ==
    \E p \in Procs :
        /\ pc[p] = "done"
        /\ Len(rules) = 2
        /\ FirstRejecting(p) = 1
        /\ Reject(rules[2], ctx[p])
        /\ RuleName(rules[1]) # RuleName(rules[2])
        /\ ret[p].Rule = RuleName(rules[1])
        /\ Len(Calls(p, "Reject")) = 1

\* C2: once a rule rejects, no rate is consulted (no Rate, Usage or
\* Likelihood call) and the random source is not invoked; and every rule is
\* asked before any rate is consulted.
C2_RulesBeforeRates ==
    \A p \in Procs :
        /\ RuleRejected(p) => ~RatesConsulted(p)
        /\ RatesConsulted(p) => Len(Calls(p, "Reject")) = Len(rules)
        /\ \A k1, k2 \in DOMAIN log[p] :
               (/\ log[p][k1].ev = "Reject"
                /\ log[p][k2].ev \in {"Rate", "randFloat", "Name", "Usage", "Likelihood"})
               => k1 < k2

\* A rule rejected in front of a rate that rejects every draw.
C2_Witness ==
    \E p \in Procs :
        /\ pc[p] = "done"
        /\ RuleRejected(p)
        /\ ret[p].type = "ErrRejection"
        /\ Len(rejectionRates) = 1
        /\ rejectionRates[1] = StaticRate(One)

\* C3: when no rule rejects, Select takes the rates in registration order
\* with exactly one draw per rate it evaluates, and rejects at the first
\* rate whose draw is strictly less than its Rate; nothing is evaluated or
\* drawn after that. Select returns nil exactly when no rule rejects and
\* every rate's draw is at least its rate, so a rate of 0 never rejects and
\* a rate of 1 always does.
C3_FirstRateDecides ==
    \A p \in Procs :
        LET rts == Calls(p, "Rate")
            rolls == Calls(p, "randFloat")
            passed(k) == ~Less(rolls[k].val, rts[k].val)
        IN  /\ Len(rolls) = Len(rts)
            /\ \A k \in DOMAIN rts : rts[k].i = k /\ rolls[k].i = k
            /\ \A k \in 1 .. Len(rts) - 1 : passed(k)
            /\ \A k \in DOMAIN rts : rts[k].val = Zero => passed(k)
            /\ \A k \in DOMAIN rts : rts[k].val = One => ~passed(k)
            /\ rts # <<>> => FirstRejecting(p) = 0
            /\ Decided(p) =>
                   /\ selectErr[p] = Nil <=>
                          /\ FirstRejecting(p) = 0
                          /\ Len(rts) = Len(rejectionRates)
                          /\ \A k \in DOMAIN rts : passed(k)
                   /\ (FirstRejecting(p) = 0 /\ selectErr[p] # Nil) =>
                          /\ ~passed(Len(rts))
                          /\ selectErr[p].Rule = RuleProbabilistic
                          /\ selectErr[p].Name = Name(rejectionRates[Len(rts)])

\* The second of two rates rejected after the first one let a draw equal to
\* its rate pass.
C3_Witness ==
    \E p \in Procs :
        /\ pc[p] = "selected"
        /\ Len(Calls(p, "Rate")) = 2
        /\ Calls(p, "Rate")[1].val = Half
        /\ Calls(p, "randFloat")[1].val = Half
        /\ selectErr[p].type = "ErrRejection"
        /\ selectErr[p].Name = Name(rejectionRates[2])

\* C4: when Do decides to reject, the action passed to Do is never executed
\* and Do returns the ErrRejection the decision produced.
C4_RejectedDoSkipsAction ==
    \A p \in Procs :
        (mode[p] = "Do" /\ Rejected(p)) =>
            /\ Calls(p, "fn") = <<>>
            /\ Calls(p, "enter") = <<>>
            /\ pc[p] \notin {"call", "unwind"}
            /\ pc[p] = "done" =>
                   /\ ret[p].type = "ErrRejection"
                   /\ ret[p] = selectErr[p]

\* Do returned a probabilistic rejection.
C4_Witness ==
    \E p \in Procs :
        /\ mode[p] = "Do"
        /\ pc[p] = "done"
        /\ RateRejected(p)
        /\ ret[p].Rule = RuleProbabilistic
        /\ Calls(p, "fn") = <<>>

\* Some capacity took a sample or moved a counter in this step.
RecordedSomething ==
    \/ current' # current
    \/ count' # count
    \/ Count(landing') > Count(landing)
    \/ Count(invocations') > Count(invocations)
    \/ Count(errors') > Count(errors)
    \/ Count(window') > Count(window)

\* C5: a rejected Do or WrapSelect call leaves every capacity's measurement
\* state unchanged: no Wrap decorator runs and nothing is recorded for it.
\* Whatever is recorded is recorded by a call that was not rejected.
C5_RejectedCallRecordsNothing ==
    /\ [](\A p \in Procs :
             (mode[p] \in {"Do", "WrapSelect"} /\ Rejected(p)) =>
                 /\ Calls(p, "enter") = <<>>
                 /\ Calls(p, "measure") = <<>>
                 /\ Calls(p, "fn") = <<>>
                 /\ frames[p] = <<>>
                 /\ pc[p] \notin {"call", "unwind"})
    /\ [][RecordedSomething =>
              \E p \in Procs : pc[p] \in {"call", "unwind"} /\ ~Rejected(p)]_vars

\* The function WrapSelect returned rejected a call on the usage an earlier
\* call had left behind.
C5_Witness ==
    \E p \in Procs :
        /\ pc[p] = "done"
        /\ mode[p] = "WrapSelect"
        /\ RateRejected(p)
        /\ ret[p].type = "ErrRejection"
        /\ ret[p].Usage # Zero
        /\ wrapped.fn # <<>>

\* What the action of the invocation returned: "nil", "error" or "panic".
Returned(p) == Calls(p, "returned")[1].class

\* C6: when Do does not reject, the action is executed exactly once and Do
\* returns exactly what the action returned, nil or the action's own error
\* unchanged; the only error the engine itself introduces is ErrRejection.
C6_AdmittedDoReturnsActionResult ==
    \A p \in Procs :
        mode[p] = "Do" =>
            /\ Len(Calls(p, "fn")) <= 1
            /\ (pc[p] = "done" /\ ~Rejected(p)) =>
                   /\ Len(Calls(p, "fn")) = 1
                   /\ ret[p] \in Outcomes
                   /\ ret[p].type = Returned(p)
            /\ (pc[p] = "done" /\ Rejected(p)) => ret[p].type = "ErrRejection"

\* Do returned the action's own error through a wrapper.
C6_Witness ==
    \E p \in Procs :
        /\ mode[p] = "Do"
        /\ pc[p] = "done"
        /\ ~Rejected(p)
        /\ fn[p] # <<>>
        /\ Returned(p) = "error"
        /\ ret[p] = ActionError

\* How many times the wrapper of rate j recorded to the state named what.
Measurements(p, j, what) ==
    Len(SelectSeq(log[p], LAMBDA e : e.ev = "measure" /\ e.i = j /\ e.class = what))

\* How many events of one kind the wrapper of rate j has logged.
WrapperEvents(p, j, ev) == Len(SelectSeq(log[p], LAMBDA e : e.ev = ev /\ e.i = j))

\* The wrapper of rate j ran once around the action and recorded its one
\* measurement; durations says how many a CapacityLatency has to record.
RanOnce(p, j, durations) ==
    LET r == rejectionRates[j]
    IN  /\ WrapperEvents(p, j, "enter") = 1
        /\ WrapperEvents(p, j, "exit") = 1
        /\ \A k1, k2, k3 \in DOMAIN log[p] :
               (/\ log[p][k1].ev = "enter" /\ log[p][k1].i = j
                /\ log[p][k2].ev = "fn"
                /\ log[p][k3].ev = "exit" /\ log[p][k3].i = j)
               => (k1 < k2 /\ k2 < k3)
        /\ CASE r.kind = "static" -> Measurements(p, j, "count") = 1
              [] r.cap = defaultNameConcurrency ->
                     Measurements(p, j, "Add") = 1 /\ Measurements(p, j, "Done") = 1
              [] r.cap = defaultNameLandingRate -> Measurements(p, j, "landing") = 1
              [] r.cap = defaultNameErrorRate ->
                     /\ Measurements(p, j, "invocations") = 1
                     /\ Measurements(p, j, "errors") = IF Returned(p) = "nil" THEN 0 ELSE 1
              [] r.cap = defaultNameLatency -> Measurements(p, j, "window") = durations

\* An admitted Do call has returned or panicked.
AdmittedDone(p) == mode[p] = "Do" /\ pc[p] = "done" /\ ~Rejected(p)

\* C7 as stated: for every admitted Do call the Wrap decorator of every
\* registered rate that has one runs exactly once around the action, and
\* each observer records exactly one measurement, whether the action
\* returns nil, returns an error or panics.
C7_AsStated ==
    \A p \in Procs :
        AdmittedDone(p) =>
            \A j \in DOMAIN rejectionRates :
                IsWrapper(rejectionRates[j]) => RanOnce(p, j, 1)

\* C7: for every admitted Do call the Wrap decorator of every registered
\* rate that has one runs exactly once around the action, whether the
\* action returns nil, returns an error or panics, and each observer records
\* exactly one measurement, except that a CapacityLatency built without
\* OptionLatencyMeasurePanics(true) records no duration when the action
\* panics.
C7_EveryWrapperRunsOnce ==
    \A p \in Procs :
        /\ \A j \in DOMAIN rejectionRates : WrapperEvents(p, j, "enter") <= 1
        /\ AdmittedDone(p) =>
               \A j \in DOMAIN rejectionRates :
                   IF IsWrapper(rejectionRates[j])
                   THEN RanOnce(p, j, IF Returned(p) = "panic" /\ ~measurePanics
                                      THEN 0 ELSE 1)
                   ELSE WrapperEvents(p, j, "enter") = 0

\* An admitted Do call panicked inside two wrappers, one of them the
\* concurrency counter.
C7_Witness ==
    \E p \in Procs :
        /\ AdmittedDone(p)
        /\ Returned(p) = "panic"
        /\ Len(fn[p]) = 2
        /\ Registered(defaultNameConcurrency)
        /\ current = 0

\* C8: a probabilistic rejection is an ErrRejection with Rule PROBABILISTIC,
\* Name the deciding rate's name, Classification the context's
\* classification, and Usage, Likelihood and Rate what the deciding rate
\* returned; with a single rate fixed at 1 and a random source returning 0,
\* Do rejects with Usage, Likelihood and Rate all 1.
C8_ProbabilisticRejectionFields ==
    \A p \in Procs :
        /\ (Decided(p) /\ RateRejected(p)) =>
               LET k == Len(Calls(p, "Rate"))
                   r == rejectionRates[k]
               IN  /\ Calls(p, "Usage") = <<Event("Usage", k, selectErr[p].Classification,
                                                 selectErr[p].Usage)>>
                   /\ Calls(p, "Likelihood") =
                          <<Event("Likelihood", k, selectErr[p].Classification,
                                  selectErr[p].Likelihood)>>
                   /\ selectErr[p] =
                          ErrRejection(RuleProbabilistic, ClassificationFromContext(ctx[p]),
                                       Name(r), Calls(p, "Usage")[1].val,
                                       Calls(p, "Likelihood")[1].val, Calls(p, "Rate")[k].val)
                   /\ Fixed(r) => /\ selectErr[p].Usage = r.value
                                  /\ selectErr[p].Likelihood = r.value
                                  /\ selectErr[p].Rate = r.value
                   /\ pc[p] = "done" => ret[p] = selectErr[p]
        /\ (/\ mode[p] = "Do" /\ pc[p] = "done"
            /\ rules = <<>> /\ rejectionRates = <<StaticRate(One)>>
            /\ Calls(p, "randFloat")[1].val = Zero)
           => ret[p] = ErrRejection(RuleProbabilistic, ClassificationFromContext(ctx[p]),
                                    nameStatic, One, One, One)

\* The error rate rejected with a usage of 1, a likelihood of 1/2 and, for
\* the classification LOW, a rate of 1.
C8_Witness ==
    \E p \in Procs :
        /\ pc[p] = "done"
        /\ ret[p].Rule = RuleProbabilistic
        /\ ret[p].Name = defaultNameErrorRate
        /\ ret[p].Classification = "LOW"
        /\ ret[p].Usage = One
        /\ ret[p].Likelihood = Half
        /\ ret[p].Rate = One

\* C9: a deterministic rejection carries only the rule's name and the
\* classification: Name is empty and Usage, Likelihood and Rate are zero;
\* its Rule field is PROBABILISTIC only when the rule itself has that name.
C9_DeterministicRejectionFields ==
    \A p \in Procs :
        (Decided(p) /\ RuleRejected(p)) =>
            LET m == Len(Calls(p, "Reject"))
            IN  /\ selectErr[p] =
                       ErrRejection(RuleName(rules[m]), ClassificationFromContext(ctx[p]),
                                    "", Zero, Zero, Zero)
                /\ selectErr[p].Rule = RuleProbabilistic => rules[m].name = RuleProbabilistic
                /\ pc[p] = "done" => ret[p] = selectErr[p]

\* A rule that is itself named PROBABILISTIC rejected a classified call.
C9_Witness ==
    \E p \in Procs :
        /\ pc[p] = "done"
        /\ RuleRejected(p)
        /\ ret[p].Rule = RuleProbabilistic
        /\ ret[p].Classification = "HIGH"
        /\ ret[p].Name = ""
        /\ ret[p].Rate = Zero

\* C10: with a Classifier, each Do call invokes Classify exactly once, before
\* any rule or rate is evaluated, and the one classification it returns is
\* what every rule, every rate, the action's context and the Classification
\* field of a returned ErrRejection see.
C10_ClassifiedOnce ==
    \A p \in Procs :
        (mode[p] = "Do" /\ classifier # "nil" /\ pc[p] \notin {"idle", "classify"}) =>
            /\ Len(Calls(p, "Classify")) = 1
            /\ log[p][1].ev = "Classify"
            /\ log[p][1].class = Classify(ctx[p])
            /\ \A k \in DOMAIN log[p] :
                   log[p][k].ev \in {"Reject", "RuleName", "Rate", "randFloat", "Name",
                                     "Usage", "Likelihood", "fn"}
                   => log[p][k].class = log[p][1].class
            /\ (pc[p] = "done" /\ ret[p].type = "ErrRejection") =>
                   ret[p].Classification = log[p][1].class

\* A Do call whose context already carried LOW was classified HIGH, and a
\* rule, a rate and the action all ran under HIGH.
C10_Witness ==
    \E p \in Procs :
        /\ mode[p] = "Do"
        /\ classifier = "fn"
        /\ pc[p] = "done"
        /\ log[p][1] = Event("Classify", 0, "HIGH", Zero)
        /\ Calls(p, "Reject") # <<>>
        /\ Calls(p, "Rate") # <<>>
        /\ Calls(p, "fn") = <<Event("fn", 0, "HIGH", Zero)>>

\* The context the caller of p passed in: classification leaves the request
\* attribute alone, and the contexts differ in it.
Passed(p) == CHOOSE c \in Contexts : c.path = ctx[p].path

\* The events of an invocation that carry the classification their callee
\* read from its context.
Classified(p) ==
    {k \in DOMAIN log[p] :
        log[p][k].ev \in {"Reject", "RuleName", "Rate", "randFloat", "Name", "Usage",
                          "Likelihood", "fn"}}

\* C11 as stated: without a Classifier, the classification that rules,
\* rates, the action and any ErrRejection see is the empty Classification,
\* for every context passed to Do.
C11_AsStated ==
    \A p \in Procs :
        (mode[p] = "Do" /\ classifier = "nil") =>
            /\ \A k \in Classified(p) : log[p][k].class = EmptyClass
            /\ (pc[p] = "done" /\ ret[p].type = "ErrRejection") =>
                   ret[p].Classification = EmptyClass

\* C11: without a Classifier, Do never calls Classify and the classification
\* that rules, rates, the action and any ErrRejection see is the one the
\* context passed to Do already carries: the empty Classification when the
\* context carries none.
C11_UnclassifiedDoPassesContext ==
    \A p \in Procs :
        (mode[p] = "Do" /\ classifier = "nil" /\ pc[p] # "idle") =>
            LET seen == IF Passed(p).class = NoValue THEN EmptyClass ELSE Passed(p).class
            IN  /\ Calls(p, "Classify") = <<>>
                /\ ctx[p] = Passed(p)
                /\ \A k \in Classified(p) : log[p][k].class = seen
                /\ (pc[p] = "done" /\ ret[p].type = "ErrRejection") =>
                       ret[p].Classification = seen

\* Without a Classifier, a rule and the action ran under the classification
\* LOW that the caller's context carried.
C11_Witness ==
    \E p \in Procs :
        /\ mode[p] = "Do"
        /\ classifier = "nil"
        /\ pc[p] = "done"
        /\ Passed(p).class = "LOW"
        /\ Calls(p, "Reject") # <<>>
        /\ Calls(p, "fn") = <<Event("fn", 0, "LOW", Zero)>>

\* The rate indexes of the events of one kind, in the order they happened.
Indexes(p, ev) == [k \in DOMAIN Calls(p, ev) |-> Calls(p, ev)[k].i]

Reverse(q) == [k \in DOMAIN q |-> q[Len(q) + 1 - k]]

\* What a call through either entry point looks like from outside: one
\* classification and one decision per call, the rejection or the action's
\* result returned, and every wrapper Do would apply entered around the
\* action and left again, outermost first.
SameAsDo(p) ==
    /\ (classifier # "nil" /\ pc[p] \notin {"idle", "classify"}) =>
           /\ Len(Calls(p, "Classify")) = 1
           /\ log[p][1].ev = "Classify"
    /\ Decided(p) =>
           /\ Rejected(p) <=> selectErr[p] # Nil
           /\ Len(Calls(p, "Reject")) =
                  IF FirstRejecting(p) = 0 THEN Len(rules) ELSE FirstRejecting(p)
    /\ (pc[p] \in {"call", "unwind", "done"} /\ ~Rejected(p)) => fn[p] = WrapAll
    /\ (pc[p] = "done" /\ Rejected(p)) =>
           /\ ret[p] = selectErr[p]
           /\ Calls(p, "enter") = <<>> /\ Calls(p, "measure") = <<>>
    /\ (pc[p] = "done" /\ ~Rejected(p)) =>
           /\ ret[p] \in Outcomes /\ ret[p].type = Returned(p)
           /\ Indexes(p, "enter") = Reverse(WrapAll)
           /\ Indexes(p, "exit") = WrapAll
           /\ \A j \in DOMAIN rejectionRates :
                  IsWrapper(rejectionRates[j]) =>
                      RanOnce(p, j, IF Returned(p) = "panic" /\ ~measurePanics THEN 0 ELSE 1)

\* C12: WrapSelect applies the rates' Wrap decorators once, when it is
\* called, and each call of the function it returns classifies and selects
\* afresh; such a call returns what Do would return (the rejection, or the
\* action's result) and has the effect Do would have on every capacity.
C12_WrapSelectSameAsDo ==
    /\ [](\A p \in Procs :
             /\ mode[p] \in {"Do", "WrapSelect"} => SameAsDo(p)
             /\ (mode[p] = "WrapSelect" /\ pc[p] # "idle") =>
                    /\ wrapped = [made |-> TRUE, fn |-> WrapAll]
                    /\ Calls(p, "Wrap") = <<>>)
    /\ [][wrapped.made => wrapped' = wrapped]_vars
    /\ [][\A p \in Procs :
             (pc[p] = "selected" /\ pc'[p] # "selected" /\ mode[p] # "Select") =>
                 IF selectErr[p] # Nil
                 THEN /\ pc'[p] = "done" /\ ret'[p] = selectErr[p]
                      /\ UNCHANGED <<capacityVars, fn, frames>>
                 ELSE /\ pc'[p] = "call" /\ fn'[p] = WrapAll
                      /\ UNCHANGED <<capacityVars, ret, frames>>]_vars

\* The second call of the function WrapSelect returned ran the action, which
\* failed, inside the two wrappers applied when WrapSelect was called.
C12_Witness ==
    \E p \in Procs :
        /\ mode[p] = "WrapSelect"
        /\ pc[p] = "done"
        /\ calls = 2
        /\ ~Rejected(p)
        /\ Len(wrapped.fn) = 2
        /\ Indexes(p, "exit") = wrapped.fn
        /\ Returned(p) = "error"

\* C13: Select only decides: it never calls the Classifier, never applies a
\* Wrap decorator, never executes an action and records nothing, and any
\* non-nil error it returns is an ErrRejection.
C13_SelectOnlyDecides ==
    /\ [](\A p \in Procs :
             (mode[p] = "Select" /\ pc[p] # "idle") =>
                 /\ pc[p] \in {"rules", "rates", "usage", "likelihood", "selected", "done"}
                 /\ ctx[p] = Passed(p)
                 /\ \A k \in DOMAIN log[p] :
                        log[p][k].ev \notin {"Classify", "Wrap", "enter", "exit", "fn",
                                            "returned", "measure"}
                 /\ fn[p] = <<>> /\ frames[p] = <<>>
                 /\ pc[p] = "done" =>
                        /\ ret[p] = selectErr[p]
                        /\ ret[p] = Nil \/ ret[p].type = "ErrRejection")
    /\ [][(\E p \in Procs : mode[p] = "Select" /\ pc[p] \notin {"idle", "done"})
              => ~RecordedSomething]_vars

\* A direct Select returned nil on a Shedder that has a Classifier and a
\* rate with a Wrap decorator, and the decorator's counter did not move.
C13_Witness ==
    \E p \in Procs :
        /\ mode[p] = "Select"
        /\ pc[p] = "done"
        /\ ret[p] = Nil
        /\ classifier = "fn"
        /\ WrapAll # <<>>
        /\ Calls(p, "Rate") # <<>>
        /\ calls = 1 /\ count = 0

\* The processes that are inside the Wrap closure of the concurrency
\* capacity: entered and not yet left.
InFlight ==
    {p \in Procs : \E k \in DOMAIN frames[p] :
        rejectionRates[frames[p][k].j].cap = defaultNameConcurrency}

\* The rates registered over the concurrency capacity (at most one).
Counting == {j \in DOMAIN rejectionRates : rejectionRates[j].cap = defaultNameConcurrency}

\* C14: in every interleaving of concurrent invocations through
\* CapacityConcurrency.Wrap the counter equals the number of wrapped
\* invocations currently executing: it is incremented before the action
\* starts and decremented on every exit path (return, error, panic), it is
\* never negative, no update is lost, and Usage is counter / limit.
C14_CounterIsInFlight ==
    /\ [](/\ current = Cardinality(InFlight)
          /\ current >= 0
          /\ CapacityConcurrencyUsage = Frac(Cardinality(InFlight), limit)
          /\ \A p \in Procs : \A j \in Counting :
                 /\ Calls(p, "fn") # <<>> => Measurements(p, j, "Add") = 1
                 /\ (pc[p] = "call" /\ Len(frames[p]) = Len(fn[p])) => p \in InFlight
                 /\ (pc[p] = "done" /\ Calls(p, "fn") # <<>>) =>
                        /\ p \notin InFlight
                        /\ Measurements(p, j, "Done") = 1
                        /\ Returned(p) \in {"nil", "error", "panic"})
    /\ [][\A p \in Procs : \A j \in Counting :
             /\ (pc[p] = "rates" /\ log'[p] # log[p]) =>
                    log'[p][Len(log'[p]) - 1] =
                        Event("Rate", j, ClassificationFromContext(ctx[p]),
                              Frac(Cardinality(InFlight), Limit))
             /\ (pc[p] = "usage" /\ pc'[p] = "likelihood") =>
                    usage'[p] = Frac(Cardinality(InFlight), Limit)]_vars

\* Every process is inside the action at once and the counter stands at the
\* limit: usage is 1.
C14_Witness ==
    /\ InFlight = Procs
    /\ \A p \in Procs : pc[p] = "call" /\ Len(frames[p]) = Len(fn[p])
    /\ current = NumProcs
    /\ CapacityConcurrencyUsage = Frac(NumProcs, limit)

\* C15: once Wait has returned, every Add(delta) matched by delta calls of
\* Done, Usage reports 0: the goroutine that saw Wait return never reads a
\* count still in flight for work that has finished.
C15_UsageZeroAfterWait ==
    waiter.pc = "read" => observed = Zero

\* The rates registered over the error-rate capacity (at most one).
ErrorRates == {j \in DOMAIN rejectionRates : rejectionRates[j].cap = defaultNameErrorRate}

\* The processes whose next step is in the deferred function of
\* CapacityErrorRate.Wrap.
Leaving == {p \in Procs : pc[p] = "unwind" /\ Top(p).j \in ErrorRates}

\* C16: each invocation through CapacityErrorRate.Wrap appends exactly one
\* attempt sample, and exactly one error sample if and only if the action
\* returned a non-nil error or panicked, on every exit path; the action's
\* own result (or panic) is passed on unchanged.
C16_ErrorRateSamples ==
    /\ [](\A p \in Procs : \A j \in ErrorRates :
             /\ Measurements(p, j, "invocations") <= 1
             /\ Measurements(p, j, "errors") <= Measurements(p, j, "invocations")
             /\ (pc[p] = "done" /\ Calls(p, "fn") # <<>>) =>
                    /\ Measurements(p, j, "invocations") = 1
                    /\ Measurements(p, j, "errors") = 1 <=> Returned(p) \in {"error", "panic"}
                    /\ ret[p] \in Outcomes /\ ret[p].type = Returned(p))
    /\ [][/\ Count(invocations') > Count(invocations) =>
                /\ Count(invocations') = Count(invocations) + 1
                /\ \E p \in Leaving : Top(p).stage = 0
          /\ Count(errors') > Count(errors) =>
                /\ Count(errors') = Count(errors) + 1
                /\ \E p \in Leaving : Top(p).stage = 1 /\ ret[p] \in {ActionError, Panic}]_vars

\* An action panicked inside CapacityErrorRate.Wrap: one attempt and one
\* error were recorded and the panic went on to the caller.
C16_Witness ==
    \E p \in Procs : \E j \in ErrorRates :
        /\ pc[p] = "done"
        /\ Calls(p, "fn") # <<>>
        /\ Returned(p) = "panic"
        /\ ret[p] = Panic
        /\ Measurements(p, j, "invocations") = 1
        /\ Measurements(p, j, "errors") = 1
        /\ Count(errors) >= 1

\* The actions p has run so far, and those of them that failed.
Runs(p) == Calls(p, "returned")

Failures(p) == SelectSeq(Runs(p), LAMBDA e : e.class # "nil")

\* p's call of Usage returns in this step.
UsageReturns(p) == pc[p] = "reading" /\ pc'[p] = "idle"

\* C17: CapacityErrorRate.Usage is (errors counted in the window) /
\* (attempts counted in the window), and 0 when no attempt is in the window:
\* when the n invocations made so far are all in the window while Usage
\* runs, and k of them failed, Usage returns exactly k/n.
C17_ErrorRateUsage ==
    [][\A p \in Procs : (ErrorRates # {} /\ minimumPoints = 0) =>
          /\ (ReadsAttempts(p) /\ attempts'[p] # NoRead) => attempts'[p] = Count(invocations)
          /\ UsageReturns(p) =>
                /\ attempts[p] = 0 => observed' = Zero
                /\ attempts[p] > 0 => observed' = Frac(Count(errors), attempts[p])
                /\ (/\ Runs(p) # <<>>
                    /\ attempts[p] = Len(Runs(p))
                    /\ Count(invocations) = Len(Runs(p))) =>
                       observed' = Frac(Len(Failures(p)), Len(Runs(p)))]_vars

\* Two invocations, one of them failed, both in the window: Usage was 1/2.
C17_Witness ==
    \E p \in Procs :
        /\ ErrorRates # {} /\ minimumPoints = 0
        /\ pc[p] = "idle"
        /\ Len(Runs(p)) = 2 /\ Len(Failures(p)) = 1
        /\ Count(invocations) = 2 /\ Count(errors) = 1
        /\ observed = Half

\* No capacity holds anything: no call in flight and every window empty.
NothingRecorded ==
    /\ current = 0
    /\ Count(landing) = 0
    /\ Count(invocations) = 0 /\ Count(errors) = 0
    /\ Count(window) = 0

\* C18: every built-in Capacity (concurrency, error rate, landing rate,
\* latency) reports Usage = 0 before any invocation has been recorded, and
\* its Usage is a defined number whatever its window holds, an empty window
\* included.
C18_EmptyCapacityUsageZero ==
    [][\A p \in Procs : UsageReturns(p) =>
          /\ observed'.d # 0
          /\ Less(observed', Zero) = FALSE
          /\ (calls = 0 \/ NothingRecorded) => observed' = Zero]_vars

\* Usage of a CapacityLatency is about to return before the first
\* invocation, with an empty window, and returns 0.
C18_Witness ==
    \E p \in Procs :
        /\ pc[p] = "reading"
        /\ calls = 0
        /\ Registered(defaultNameLatency)
        /\ NothingRecorded
        /\ CapacityUsage(rejectionRates[1].cap, attempts[p]) = Zero

\* p's call of CapacityErrorRate.Usage reduces the attempts window in this
\* step.
AttemptsReduced(p) == ReadsAttempts(p) /\ attempts'[p] # NoRead

LandingRates == {j \in DOMAIN rejectionRates : rejectionRates[j].cap = defaultNameLandingRate}

\* p is inside the function CapacityLandingRate.Wrap returned: the action
\* has not started yet, is running, or has ended and not yet returned.
Landed(p) == pc[p] \in {"call", "unwind"} /\ frames[p] # <<>>

\* C20: each invocation through CapacityLandingRate.Wrap appends exactly one
\* sample, before the action starts and whatever the action then does
\* (success, error, panic, or still running), and Usage equals (samples in
\* the window) / limit.
C20_LandingRateSamples ==
    /\ [](\A p \in active : \A j \in LandingRates :
             /\ Measurements(p, j, "landing") = WrapperEvents(p, j, "enter")
             /\ Measurements(p, j, "landing") =
                    Len(Runs(p)) + (IF pc[p] = "call" /\ frames[p] # <<>> THEN 1 ELSE 0)
             /\ Count(landing) <= Measurements(p, j, "landing"))
    /\ [][\A p \in Procs : LandingRates # {} =>
             /\ Count(landing') > Count(landing) =>
                   /\ Count(landing') = Count(landing) + 1
                   /\ \E q \in Procs : pc[q] = "call" /\ frames[q] = <<>> /\ Landed(q)'
             /\ (pc[p] = "call" /\ frames[p] = <<>> /\ Landed(p)') =>
                   Count(landing') = Count(landing) + 1
             /\ (Landed(p) /\ Landed(p)') => Count(landing') <= Count(landing)
             /\ UsageReturns(p) =>
                   /\ observed' = Frac(Count(landing), Limit)
                   /\ Count(landing) = calls => observed' = Frac(calls, Limit)]_vars

\* Two invocations, one of which panicked, are both in the window and
\* Usage returned 2 / limit.
C20_Witness ==
    \E p \in Procs :
        /\ LandingRates # {}
        /\ pc[p] = "idle"
        /\ calls = 2 /\ Len(Runs(p)) = 2
        /\ \E i \in DOMAIN Runs(p) : Runs(p)[i].class = "panic"
        /\ Count(landing) = 2
        /\ observed = Frac(2, Limit)

\* The position in p's events of its last sleep of a whole window duration,
\* 0 when it has not slept.
LastSleep(p) ==
    LET S == {i \in DOMAIN log[p] : log[p][i].ev = "Sleep"}
    IN  IF S = {} THEN 0 ELSE CHOOSE i \in S : \A k \in S : k <= i

\* The samples p's invocations recorded in the state named what since then.
RecordedSince(p, what) ==
    Cardinality({i \in DOMAIN log[p] :
        i > LastSleep(p) /\ log[p][i].ev = "measure" /\ log[p][i].class = what})

\* C21: samples of a rolling-window capacity expire: once a full window
\* duration has passed with no new invocation CapacityLandingRate.Usage is 0
\* again, and a sample never counts toward Usage after its bucket has slid
\* out of the window.
C21_LandingSamplesExpire ==
    /\ [](\A p \in active : LandingRates # {} =>
             /\ Count(landing) <= RecordedSince(p, "landing")
             /\ RecordedSince(p, "landing") = 0 => CapacityLandingRateUsage = Zero)
    /\ [][\A p \in Procs : LandingRates # {} =>
             /\ UsageReturns(p) =>
                   /\ ~Less(Frac(RecordedSince(p, "landing"), Limit), observed')
                   /\ RecordedSince(p, "landing") = 0 => observed' = Zero
             /\ (landing' # landing /\ log' = log) =>
                   /\ Count(landing') = Count(landing) - Len(landing[1])
                   /\ landing'[Buckets] = <<>>]_vars

\* Two invocations landed, a whole window duration passed, and Usage is
\* about to return 0.
C21_Witness ==
    \E p \in Procs :
        /\ LandingRates # {}
        /\ pc[p] = "reading"
        /\ calls = 2
        /\ \E j \in LandingRates : Measurements(p, j, "landing") = 2
        /\ log[p][Len(log[p])].ev = "Sleep"
        /\ CapacityUsage(rejectionRates[1].cap, attempts[p]) = Zero

\* The rates registered over the latency capacity (at most one).
LatencyRates == {j \in DOMAIN rejectionRates : rejectionRates[j].cap = defaultNameLatency}

\* Those of p's actions that panicked.
Panics(p) == SelectSeq(Runs(p), LAMBDA e : e.class = "panic")

\* The duration samples CapacityLatency.Wrap owes for p's finished
\* invocations.
DurationsDue(p) ==
    Len(Runs(p)) - (IF measurePanics THEN 0 ELSE Len(Panics(p)))

\* C22: CapacityLatency.Wrap records exactly one duration sample per
\* invocation that returns (with or without an error); when the action
\* panics it records exactly one sample with OptionLatencyMeasurePanics(true)
\* and none otherwise (the default).
C22_LatencySamples ==
    /\ [](\A p \in active : \A j \in LatencyRates :
             IF pc[p] = "unwind"
             THEN Measurements(p, j, "window") = DurationsDue(p) -
                      (IF measurePanics \/ ret[p] # Panic THEN 1 ELSE 0)
             ELSE Measurements(p, j, "window") = DurationsDue(p))
    /\ [][LatencyRates # {} =>
             /\ Count(window') > Count(window) =>
                   /\ Count(window') = Count(window) + 1
                   /\ \E p \in Procs :
                         /\ pc[p] = "unwind" /\ pc'[p] = "done"
                         /\ measurePanics \/ ret[p] # Panic
                         /\ window'[Buckets] = Append(window[Buckets], Top(p).elapsed)
             /\ \A p \in Procs :
                   (pc[p] = "unwind" /\ pc'[p] = "done" /\ ~measurePanics /\ ret[p] = Panic)
                       => window' = window]_vars

\* By default: of two invocations one returned an error and one panicked,
\* and one duration was recorded.
C22_Witness ==
    \E p \in Procs : \E j \in LatencyRates :
        /\ ~measurePanics
        /\ pc[p] = "done"
        /\ Len(Runs(p)) = 2 /\ Len(Panics(p)) = 1 /\ Len(Failures(p)) = 2
        /\ Measurements(p, j, "window") = 1

\* The last call of the wrapped Capacity's Usage.
LastRefresh == refreshes[Len(refreshes)]

\* C23: CapacityThrottle.Usage calls the wrapped Capacity's Usage on the
\* first call and afterwards only when at least the configured duration has
\* elapsed since the last refresh; every call in between returns the cached
\* value even if the wrapped usage has changed, so the wrapped Usage is
\* computed at most once per duration.
C23_ThrottleCaches ==
    /\ [](\A i \in 1 .. Len(refreshes) - 1 :
             refreshes[i + 1].at - refreshes[i].at >= duration)
    /\ [][\A p \in Procs :
             /\ (pc[p] = "locked" /\ pc'[p] = "delegating" /\ refreshes # <<>>) =>
                   clock - LastRefresh.at >= duration
             /\ (pc[p] = "locked" /\ refreshes = <<>>) => pc'[p] # "cached"
             /\ (pc[p] = "locked" /\ last # ZeroTime /\ clock - last >= duration) =>
                   pc'[p] # "cached"
             /\ (pc[p] = "locked" /\ refreshes # <<>> /\ clock - LastRefresh.at < duration) =>
                   pc'[p] # "delegating"
             /\ (pc[p] = "cached" /\ pc'[p] = "done") =>
                   /\ usage'[p] = LastRefresh.val
                   /\ refreshes' = refreshes]_vars

\* A call returned the value another call had cached, half the limit in
\* use, though nothing is in flight any more.
C23_Witness ==
    \E p \in Procs :
        /\ pc[p] = "done"
        /\ Len(refreshes) = 1
        /\ LastRefresh.by # p
        /\ LastRefresh.val = Half
        /\ usage[p] = Half
        /\ current = 0
        /\ lock = Unlocked

\* The processes inside CapacityThrottle.Usage, past Lock.
InUsage == {p \in Procs : pc[p] \in {"locked", "delegating", "refreshed", "cached"}}

\* C24: under concurrent CapacityThrottle.Usage calls the check of the
\* timestamp, the delegate call and the update of cache and timestamp form
\* one critical section: at most one call of the wrapped Usage is in
\* progress at any time, callers that all find the cache expired cause
\* exactly one refresh, and no caller returns a cache value paired with a
\* stale or half-updated timestamp.
C24_ThrottleCriticalSection ==
    /\ [](/\ Cardinality(InUsage) <= 1
          /\ \A p \in InUsage : lock = p
          /\ InUsage = {} => lock = Unlocked
          /\ \A p \in Procs : pc[p] = "cached" =>
                /\ refreshes # <<>>
                /\ cache = LastRefresh.val
                /\ last >= LastRefresh.at)
    /\ [][/\ refreshes' # refreshes =>
                /\ Len(refreshes') = Len(refreshes) + 1
                /\ InUsage = {refreshes'[Len(refreshes')].by}
                /\ refreshes # <<>> => refreshes'[Len(refreshes')].at - last >= duration
          /\ \A p \in Procs : (pc[p] = "cached" /\ pc'[p] = "done") =>
                /\ usage'[p] = cache /\ cache' = cache /\ last' = last
                /\ \A q \in Procs : pc[q] # "refreshed"]_vars

\* Both processes called Usage before the clock moved, when nothing was
\* cached yet: both returned the counter's usage and it was read once.
C24_Witness ==
    /\ clock = 0
    /\ rejectionRates[1].cap = nameCounter
    /\ Len(refreshes) = 1
    /\ \A p \in Procs : pc[p] = "done" /\ usage[p] = One
    /\ lock = Unlocked

\* The processes inside a function some Wrap returned.
Observed == {p \in Procs : pc[p] \in {"call", "unwind"} /\ frames[p] # <<>>}

\* The invocations of the wrapped function p has begun.
Begun(p) == Len(Runs(p)) + (IF pc[p] = "call" THEN 1 ELSE 0)

RateCalled(p) ==
    /\ pc[p] = "rates"
    /\ Len(Calls(p, "Rate")') = Len(Calls(p, "Rate")) + 1

\* C26: RejectionRateCurve.Rate applies the curve registered for the
\* context's classification when one is registered, and the default curve
\* otherwise (an empty classification and an empty class map included), to
\* the current Likelihood; FailureProbabilityCurve.Likelihood is its curve
\* applied to the current Usage.
C26_RateByClassification ==
    [][\A p \in Procs :
          (RateCalled(p) /\ rejectionRates[idx[p]].kind = "curve") =>
              LET r == rejectionRates[idx[p]]
                  class == ClassificationFromContext(ctx[p])
                  likelihood == Curve(r.Curve, CapacityUsage(r.cap, attempts[p]))
                  registered == {e \in r.classificationCurves : e[1] = class}
                  result == Calls(p, "Rate")'[Len(Calls(p, "Rate")')]
              IN  /\ result.i = idx[p] /\ result.class = class
                  /\ \A e \in registered : result.val = Curve(e[2], likelihood)
                  /\ registered = {} => result.val = Curve(r.defaultCurve, likelihood)
                  /\ Likelihood(r, attempts[p]) = likelihood]_vars

\* A LOW invocation was given the rate 1 by the curve registered for LOW
\* where the default curve gives 1/2.
C26_Witness ==
    \E p \in Procs : \E k \in DOMAIN log[p] :
        LET e == log[p][k]
        IN  /\ e.ev = "Rate" /\ e.i \in ErrorRates
            /\ e.class = "LOW" /\ e.val = One
            /\ ClassificationFromContext(ctx[p]) = "LOW"
            /\ Curve(rejectionRates[e.i].defaultCurve, Half) = Half

\* p's Select calls Likelihood of the rate it stands at, for the
\* ErrRejection, in this step.
LikelihoodCalled(p) == pc[p] = "likelihood" /\ pc'[p] = "selected"

\* C27: the identity constructions change nothing: for a rate built by
\* NewRejectionRateCurveIdentity Rate(ctx) equals Likelihood(ctx), and for a
\* probability built by NewFailureProbabilityCurveIdentity Likelihood(ctx)
\* equals Usage(ctx), for every input value and every classification.
C27_IdentityCurves ==
    [][\A p \in Procs :
          LET r == rejectionRates[idx[p]]
              u == CapacityUsage(r.cap, attempts[p])
          IN  /\ (RateCalled(p) /\ r.kind = "curve"
                    /\ r = NewRejectionRateCurveIdentity(r)) =>
                     /\ Calls(p, "Rate")'[Len(Calls(p, "Rate")')].val = Likelihood(r, attempts[p])
                     /\ r = NewRejectionRateCurveIdentity(NewFailureProbabilityCurveIdentity(r.cap))
                           => Calls(p, "Rate")'[Len(Calls(p, "Rate")')].val = u
              /\ (LikelihoodCalled(p) /\ r.kind = "curve"
                    /\ r.Curve = NewFailureProbabilityCurveIdentity(r.cap).Curve) =>
                     selectErr'[p].Likelihood = u]_vars

\* A LOW invocation was rejected by the identity rate over the identity
\* probability of the concurrency capacity at half its limit: Usage,
\* Likelihood and Rate are all 1/2.
C27_Witness ==
    \E p \in Procs :
        /\ pc[p] = "selected"
        /\ selectErr[p] # Nil
        /\ selectErr[p].Name = defaultNameConcurrency
        /\ selectErr[p].Classification = "LOW"
        /\ selectErr[p].Usage = Half
        /\ selectErr[p].Likelihood = Half
        /\ selectErr[p].Rate = Half

(* ------------------------------------------------------------------ *)
(* CurveLinear.Curve as a function of its inputs                       *)
(* ------------------------------------------------------------------ *)

InitCurveSpec ==
    /\ rules = <<>>
    /\ rejectionRates = <<>>
    /\ classifier = "nil"
    /\ measurePanics = FALSE
    /\ minimumPoints = 1
    /\ limit = Limit
    /\ active = {}
    /\ InitCapacities
    /\ wrapped = [made |-> FALSE, fn |-> <<>>]
    /\ calls = 0
    /\ InitProcs
    /\ InitGroup
    /\ InitThrottle(1)
    /\ InitHandler("default", {})
    /\ InitTransport("nil", {})
    /\ \E lower \in Thresholds, upper \in Thresholds, exponent \in 0 .. MaxExponent :
           InitCurve(lower, upper, exponent)

\* result := c.Curve(ctx, v)
CurveCall(v) ==
    /\ input' = v
    /\ output' = <<Curve(linear, v)>>
    /\ UNCHANGED <<shedderVars, capacityVars, wrapped, calls, procVars, groupVars,
                   throttleVars, handlerVars, transportVars, linear>>

NextCurve == \E v \in Values : CurveCall(v)

SpecCurve == InitCurveSpec /\ [][NextCurve]_vars

\* Lower and Upper bound an interval.
Interval == ~Less(linear.Upper, linear.Lower)

\* (value - Lower) / (Upper - Lower), raised to the Exponent.
Interpolated ==
    LET num == input.n * linear.Lower.d - linear.Lower.n * input.d
        den == linear.Upper.n * linear.Lower.d - linear.Lower.n * linear.Upper.d
        ratio == Frac(num * linear.Upper.d, den * input.d)
    IN  Pow(ratio, linear.Exponent)

Starts(p) == pc[p] \in {"idle", "done"} /\ pc'[p] \in {"classify", "rules"}

\* The locals of p are those of a caller that has made no call yet.
FreshLocals(p) ==
    /\ idx'[p] = 1
    /\ attempts'[p] = NoRead
    /\ rate'[p] = Zero
    /\ usage'[p] = Zero
    /\ selectErr'[p] = Nil
    /\ fn'[p] = <<>>
    /\ frames'[p] = <<>>
    /\ ret'[p] = Nil
    /\ log'[p] = <<>>

\* C29: no Do, Select or WrapSelect call changes the rule list, the rate
\* list or the classifier of the Shedder, and a decision leaves nothing
\* behind outside the Capacities: every invocation starts from the same
\* locals, the rule loop rejects exactly at the first rule that rejects the
\* context, and every rate it compares is the value of the Capacity state of
\* that moment, the rejection following from the comparison with the draw.
C29_NoStateBetweenDecisions ==
    [][/\ UNCHANGED <<rules, rejectionRates, classifier>>
       /\ \A p \in Procs :
              /\ Starts(p) => FreshLocals(p)
              /\ (pc[p] = "rules" /\ pc'[p] = "selected") =>
                     /\ idx[p] = FirstRejecting(p)
                     /\ selectErr'[p] = DeterministicRejection(rules[idx[p]], ctx[p])
              /\ (pc[p] = "rules" /\ pc'[p] = "rates") => FirstRejecting(p) = 0
              /\ RateCalled(p) =>
                     LET k == Len(Calls(p, "Rate")')
                         rt == Calls(p, "Rate")'[k]
                         diceRoll == Calls(p, "randFloat")'[k]
                     IN  /\ rt.i = idx[p]
                         /\ \A j \in 1 .. k : Calls(p, "Rate")'[j].i = j
                         /\ rt.val = Rate(rejectionRates[idx[p]], ctx[p], attempts[p])
                         /\ (pc'[p] = "usage") <=> Less(diceRoll.val, rt.val)]_vars

\* A Shedder with rules and rates has decided before, and now admits an
\* invocation.
C29_Witness ==
    \E p \in Procs :
        /\ calls >= 2
        /\ pc[p] = "selected"
        /\ selectErr[p] = Nil
        /\ Len(rules) > 0
        /\ Len(rejectionRates) > 0

(* ------------------------------------------------------------------ *)
(* The http.Handler middleware                                         *)
(* ------------------------------------------------------------------ *)

StatusOK == 200
StatusTeapot == 418
StatusInternalServerError == 500
StatusServiceUnavailable == 503

\* No WriteHeader call.
NoCode == 0

\* The codes the wrapped handler may write.
HandlerCodes == {NoCode, StatusOK, StatusInternalServerError}

\* context.WithValue(ctx, ctxKeyHandler, val)
NewHandlerContext(c, val) == [class |-> c.class, path |-> c.path, handler |-> <<val>>]

\* The context of a request nothing has been stored in.
RequestContext(c) == [class |-> c.class, path |-> c.path, handler |-> <<>>]

\* The stored ErrRejection, or the zero value.
FromHandlerContext(c) ==
    IF c.handler # <<>> THEN c.handler[1]
    ELSE ErrRejection("", EmptyClass, "", Zero, Zero, Zero)

\* proxy.WriteHeader(code): the code goes to the ResponseWriter and the
\* hook stores it in status.
WriteHeader(p, code) ==
    IF code = NoCode THEN UNCHANGED <<status, response>>
    ELSE /\ response' = [response EXCEPT ![p] = Append(@, code)]
         /\ status' = [status EXCEPT ![p] = code]

InitHandlerSpec ==
    /\ InitGroup
    /\ InitThrottle(1)
    /\ InitCurve(Zero, One, 1)
    /\ InitShedder(RuleMenu, FixedRates \cup {ConcurrencyRate})
    /\ active = {1}
    /\ InitCapacities
    /\ InitProcs
    /\ \E cb \in {"default", "custom"}, codes \in {{}, {StatusInternalServerError}} :
           InitHandler(cb, codes)
    /\ InitTransport("nil", {})

\* ServeHTTP is called: status := 200 and m.shed.Do(r.Context(), ...).
ServeHTTP(p) ==
    /\ p \in active
    /\ pc[p] \in {"idle", "done"}
    /\ serving[p] # "do"
    /\ trip[p].at # "do"
    /\ calls < MaxCalls
    /\ calls' = calls + 1
    /\ serving' = [serving EXCEPT ![p] = "do"]
    /\ status' = [status EXCEPT ![p] = StatusOK]
    /\ response' = [response EXCEPT ![p] = <<>>]
    /\ handled' = [handled EXCEPT ![p] = <<>>]
    /\ pc' = [pc EXCEPT ![p] = "classify"]
    /\ mode' = [mode EXCEPT ![p] = "Do"]
    /\ \E c \in Contexts : ctx' = [ctx EXCEPT ![p] = c]
    /\ idx' = [idx EXCEPT ![p] = 1]
    /\ attempts' = [attempts EXCEPT ![p] = NoRead]
    /\ rate' = [rate EXCEPT ![p] = Zero]
    /\ usage' = [usage EXCEPT ![p] = Zero]
    /\ selectErr' = [selectErr EXCEPT ![p] = Nil]
    /\ fn' = [fn EXCEPT ![p] = <<>>]
    /\ frames' = [frames EXCEPT ![p] = <<>>]
    /\ ret' = [ret EXCEPT ![p] = Nil]
    /\ log' = [log EXCEPT ![p] = <<>>]
    /\ trip' = [trip EXCEPT ![p] = NoTrip]
    /\ UNCHANGED <<shedderVars, throttleVars, curveVars, transport, groupVars,
                   capacityVars, wrapped, callback, errCodes>>

\* The function given to Do: m.next.ServeHTTP(proxy, r), which may write a
\* code or panic, and then the error for a code of errCodes.
HandlerRun(p) ==
    /\ pc[p] = "call"
    /\ serving[p] = "do"
    /\ Len(frames[p]) = Len(fn[p])
    /\ \E code \in HandlerCodes, panics \in BOOLEAN :
           LET written == IF code = NoCode THEN status[p] ELSE code
               outcome == IF panics THEN Panic
                          ELSE IF written \in errCodes THEN ActionError
                          ELSE Nil
           IN  /\ WriteHeader(p, code)
               /\ ret' = [ret EXCEPT ![p] = outcome]
               /\ Logged(p, <<Event("fn", 0, ClassificationFromContext(ctx[p]), Zero),
                              Event("returned", 0, outcome.type, Zero)>>)
    /\ pc' = [pc EXCEPT ![p] = IF fn[p] = <<>> THEN "done" ELSE "unwind"]
    /\ UNCHANGED <<shedderVars, throttleVars, curveVars, transportVars, groupVars,
                   capacityVars, wrapped, calls, mode, ctx, idx, attempts, rate, usage,
                   selectErr, fn, frames, callback, errCodes, serving, handled>>

\* m.callback.ServeHTTP(proxy, r): the callback reads the rejection from
\* the context of the request; the default one writes 503, the one of
\* TestHandlerCallback writes 418.
Callback(p, c) ==
    /\ handled' = [handled EXCEPT ![p] = Append(@, FromHandlerContext(c))]
    /\ WriteHeader(p, IF callback = "default" THEN StatusServiceUnavailable
                      ELSE StatusTeapot)

\* A ServeHTTP that runs the callback for every error Do returns.
ServeHTTPReturnAnyError(p) ==
    /\ pc[p] = "done"
    /\ serving[p] = "do"
    /\ IF ret[p] = Panic
       THEN /\ serving' = [serving EXCEPT ![p] = "panicked"]
            /\ UNCHANGED <<status, response, handled>>
       ELSE /\ serving' = [serving EXCEPT ![p] = "served"]
            /\ IF ret[p] # Nil
               THEN Callback(p, NewHandlerContext(RequestContext(ctx[p]), ret[p]))
               ELSE UNCHANGED <<status, response, handled>>
    /\ UNCHANGED <<shedderVars, throttleVars, curveVars, transportVars, groupVars,
                   capacityVars, wrapped, calls, procVars, callback, errCodes>>

\* Do has returned: errors.As(lerr, &shed), and for an ErrRejection the
\* callback with the rejection in the context of the request. A panic of
\* the handler leaves ServeHTTP without reaching this point.
ServeHTTPReturn(p) ==
    /\ pc[p] = "done"
    /\ serving[p] = "do"
    /\ IF ret[p] = Panic
       THEN /\ serving' = [serving EXCEPT ![p] = "panicked"]
            /\ UNCHANGED <<status, response, handled>>
       ELSE /\ serving' = [serving EXCEPT ![p] = "served"]
            /\ IF ret[p].type = "ErrRejection"
               THEN Callback(p, NewHandlerContext(RequestContext(ctx[p]), ret[p]))
               ELSE UNCHANGED <<status, response, handled>>
    /\ UNCHANGED <<shedderVars, throttleVars, curveVars, transportVars, groupVars,
                   capacityVars, wrapped, calls, procVars, callback, errCodes>>

NextHandler ==
    \E p \in Procs :
        \/ ServeHTTP(p)
        \/ DoClassify(p)
        \/ SelectRule(p)
        \/ SelectRate(p)
        \/ SelectUsage(p)
        \/ SelectLikelihood(p)
        \/ DoSelected(p)
        \/ WrapEnter(p)
        \/ HandlerRun(p)
        \/ WrapExit(p)
        \/ ServeHTTPReturn(p)

SpecHandler == InitHandlerSpec /\ [][NextHandler]_vars

\* The runs of the wrapped handler in the request p is serving.
HandlerRuns(p) == Len(Calls(p, "fn"))

\* C30: a rejected request never reaches the wrapped handler; the callback
\* runs exactly once for it, FromHandlerContext giving it the ErrRejection,
\* and the default callback answers 503. A request that is not rejected
\* reaches the wrapped handler exactly once and the callback does not run.
C30_HandlerMiddleware ==
    \A p \in active :
        /\ selectErr[p] # Nil => HandlerRuns(p) = 0
        /\ Len(handled[p]) <= 1
        /\ handled[p] # <<>> => serving[p] = "served"
        /\ serving[p] = "served" =>
               IF selectErr[p] # Nil
               THEN /\ HandlerRuns(p) = 0
                    /\ handled[p] = <<selectErr[p]>>
                    /\ selectErr[p].type = "ErrRejection"
                    /\ callback = "default" =>
                           response[p] = <<StatusServiceUnavailable>>
               ELSE /\ HandlerRuns(p) = 1
                    /\ handled[p] = <<>>
        /\ serving[p] = "panicked" => (HandlerRuns(p) = 1 /\ handled[p] = <<>>)

\* A request rejected by a rate has been answered 503 by the default
\* callback, which saw the rejection with its rate.
C30_Witness ==
    \E p \in active :
        /\ serving[p] = "served"
        /\ callback = "default"
        /\ response[p] = <<StatusServiceUnavailable>>
        /\ Len(handled[p]) = 1
        /\ handled[p][1].Rule = RuleProbabilistic
        /\ handled[p][1].Rate = Half
        /\ HandlerRuns(p) = 0

(* ------------------------------------------------------------------ *)
(* The http.RoundTripper middleware                                    *)
(* ------------------------------------------------------------------ *)

\* &errStatusCode{errCode: resp.StatusCode}
StatusCodeError == ErrorOf("errStatusCode", "", EmptyClass, "", Zero, Zero, Zero)

\* The error the callback of TestTransportOptionCallback returns.
CallbackError == ErrorOf("callback", "", EmptyClass, "", Zero, Zero, Zero)

\* context.WithValue(ctx, ctxKeyTransport, val)
NewTransportContext(c, val) == [class |-> c.class, path |-> c.path, transport |-> <<val>>]

\* The stored ErrRejection, or the zero value.
FromTransportContext(c) ==
    IF c.transport # <<>> THEN c.transport[1]
    ELSE ErrRejection("", EmptyClass, "", Zero, Zero, Zero)

\* The codes of the responses the wrapped RoundTripper gives.
ResponseCodes == {StatusOK, StatusInternalServerError}

\* RoundTrip is called: var resp *http.Response and c.load.Do(...).
RoundTrip(p) ==
    /\ p \in active
    /\ pc[p] \in {"idle", "done"}
    /\ trip[p].at # "do"
    /\ serving[p] # "do"
    /\ calls < MaxTrips
    /\ calls' = calls + 1
    /\ trip' = [trip EXCEPT ![p] = [NoTrip EXCEPT !.at = "do"]]
    /\ pc' = [pc EXCEPT ![p] = "classify"]
    /\ mode' = [mode EXCEPT ![p] = "Do"]
    /\ \E c \in Contexts : ctx' = [ctx EXCEPT ![p] = c]
    /\ idx' = [idx EXCEPT ![p] = 1]
    /\ attempts' = [attempts EXCEPT ![p] = NoRead]
    /\ rate' = [rate EXCEPT ![p] = Zero]
    /\ usage' = [usage EXCEPT ![p] = Zero]
    /\ selectErr' = [selectErr EXCEPT ![p] = Nil]
    /\ fn' = [fn EXCEPT ![p] = <<>>]
    /\ frames' = [frames EXCEPT ![p] = <<>>]
    /\ ret' = [ret EXCEPT ![p] = Nil]
    /\ log' = [log EXCEPT ![p] = <<>>]
    /\ serving' = [serving EXCEPT ![p] = "idle"]
    /\ status' = [status EXCEPT ![p] = 0]
    /\ response' = [response EXCEPT ![p] = <<>>]
    /\ handled' = [handled EXCEPT ![p] = <<>>]
    /\ UNCHANGED <<shedderVars, throttleVars, curveVars, callback, errCodes, groupVars,
                   capacityVars, wrapped, transport>>

\* errCodeTransport.RoundTrip around the wrapped RoundTripper: its error as
\* it is, else an errStatusCode for a status of errorCodes, else nil.
errCodeTransport(code, er) ==
    IF er # Nil THEN er
    ELSE IF code \in transport.errorCodes THEN StatusCodeError
    ELSE Nil

\* The function given to Do: c.wrapped.RoundTrip(r.WithContext(ctx)), resp
\* = innerResp, return innerEr. The wrapped RoundTripper answers with a
\* response or fails with an error and no response.
TransportRun(p) ==
    /\ pc[p] = "call"
    /\ trip[p].at = "do"
    /\ Len(frames[p]) = Len(fn[p])
    /\ \E code \in ResponseCodes, er \in {Nil, ActionError} :
           LET innerResp == IF er # Nil THEN NoCode ELSE code
               innerEr == errCodeTransport(code, er)
           IN  /\ trip' = [trip EXCEPT ![p].resp = innerResp, ![p].sent = @ + 1]
               /\ ret' = [ret EXCEPT ![p] = innerEr]
               /\ Logged(p, <<Event("fn", 0, ClassificationFromContext(ctx[p]), Zero),
                              Event("returned", 0, innerEr.type, Zero)>>)
    /\ pc' = [pc EXCEPT ![p] = IF fn[p] = <<>> THEN "done" ELSE "unwind"]
    /\ UNCHANGED <<shedderVars, throttleVars, curveVars, handlerVars, groupVars,
                   capacityVars, wrapped, calls, mode, ctx, idx, attempts, rate, usage,
                   selectErr, fn, frames, transport>>

\* A RoundTrip that hands the errStatusCode on to its caller.
RoundTripReturnStatusError(p) ==
    /\ pc[p] = "done"
    /\ trip[p].at = "do"
    /\ LET e == ret[p]
       IN  IF e.type = "ErrRejection" /\ transport.callback # "nil"
           THEN trip' = [trip EXCEPT
                    ![p].at = "returned",
                    ![p].seen = Append(@, FromTransportContext(
                                              NewTransportContext(ctx[p], e))),
                    ![p].result = <<NoCode, CallbackError>>]
           ELSE trip' = [trip EXCEPT ![p].at = "returned",
                                     ![p].result = <<trip[p].resp, e>>]
    /\ UNCHANGED <<shedderVars, throttleVars, curveVars, handlerVars, groupVars,
                   capacityVars, wrapped, calls, procVars, transport>>

\* A RoundTrip that runs the callback and still returns resp and the
\* rejection.
RoundTripReturnOwnPair(p) ==
    /\ pc[p] = "done"
    /\ trip[p].at = "do"
    /\ LET e == IF ret[p] = StatusCodeError THEN Nil ELSE ret[p]
       IN  IF e.type = "ErrRejection" /\ transport.callback # "nil"
           THEN trip' = [trip EXCEPT
                    ![p].at = "returned",
                    ![p].seen = Append(@, FromTransportContext(
                                              NewTransportContext(ctx[p], e))),
                    ![p].result = <<trip[p].resp, e>>]
           ELSE trip' = [trip EXCEPT ![p].at = "returned",
                                     ![p].result = <<trip[p].resp, e>>]
    /\ UNCHANGED <<shedderVars, throttleVars, curveVars, handlerVars, groupVars,
                   capacityVars, wrapped, calls, procVars, transport>>

\* Do has returned: an errStatusCode becomes nil; for an ErrRejection and a
\* callback, the callback gets the request with the rejection in its context
\* and its pair is returned; otherwise resp and the error are returned.
RoundTripReturn(p) ==
    /\ pc[p] = "done"
    /\ trip[p].at = "do"
    /\ LET e == IF ret[p] = StatusCodeError THEN Nil ELSE ret[p]
       IN  IF e.type = "ErrRejection" /\ transport.callback # "nil"
           THEN trip' = [trip EXCEPT
                    ![p].at = "returned",
                    ![p].seen = Append(@, FromTransportContext(
                                              NewTransportContext(ctx[p], e))),
                    ![p].result = <<NoCode, CallbackError>>]
           ELSE trip' = [trip EXCEPT ![p].at = "returned",
                                     ![p].result = <<trip[p].resp, e>>]
    /\ UNCHANGED <<shedderVars, throttleVars, curveVars, handlerVars, groupVars,
                   capacityVars, wrapped, calls, procVars, transport>>

\* A rule that rejects every request, as staticRule{reject: true} does.
RejectAll == [name |-> "static", rejects |-> Classifications]

\* Shedders as the middleware tests build them: at most one rule and one
\* rate, the error rate with 0 or 1 minimum points; the handler and the
\* transport with or without a callback and the error codes.
InitMiddleware ==
    /\ InitGroup
    /\ InitThrottle(1)
    /\ InitCurve(Zero, One, 1)
    /\ rules \in SeqsUpTo({RejectAll}, 1)
    /\ rejectionRates \in SeqsUpTo({StaticRate(One), ErrorRate, ErrorStepRate}, 1)
    /\ classifier \in Classifiers
    /\ measurePanics = FALSE
    /\ minimumPoints \in {0, 1}
    /\ limit = Limit
    /\ active = {1}
    /\ InitCapacities
    /\ InitProcs
    /\ \E custom \in BOOLEAN, codes \in {{}, {StatusInternalServerError}} :
           /\ InitHandler(IF custom THEN "custom" ELSE "default", codes)
           /\ InitTransport(IF custom THEN "custom" ELSE "nil", codes)

NextMiddleware ==
    \/ \E p \in Procs :
           \/ ServeHTTP(p)
           \/ RoundTrip(p)
           \/ DoClassify(p)
           \/ SelectRule(p)
           \/ ReduceAttempts(p)
           \/ SelectRate(p)
           \/ SelectUsage(p)
           \/ SelectLikelihood(p)
           \/ DoSelected(p)
           \/ WrapEnter(p)
           \/ HandlerRun(p)
           \/ TransportRun(p)
           \/ WrapExit(p)
           \/ ServeHTTPReturn(p)
           \/ RoundTripReturn(p)
    \/ Tick

SpecMiddleware == InitMiddleware /\ [][NextMiddleware]_vars

\* The registered rates that stand on the CapacityErrorRate.
ErrorRateIndexes ==
    {j \in DOMAIN rejectionRates : rejectionRates[j].cap = defaultNameErrorRate}

\* The handler of the request p is serving has run, without a panic, and
\* the status it left is one of errCodes.
HandlerErrorCode(p) ==
    /\ serving[p] \in {"do", "served"}
    /\ HandlerRuns(p) = 1
    /\ Returned(p) # Panic.type
    /\ status[p] \in errCodes

\* The wrapped RoundTripper has answered the request of p with a response
\* whose status is one of errorCodes.
TransportErrorCode(p) ==
    /\ trip[p].at \in {"do", "returned"}
    /\ trip[p].sent = 1
    /\ trip[p].resp \in transport.errorCodes

\* C31: a response whose status code is in the configured error-code set is
\* reported to the shedder as a failed action, so that a CapacityErrorRate
\* records one attempt and one error for it, while the caller still gets
\* the original response: RoundTrip returns the response with a nil error,
\* the handler keeps the status it wrote, and no rejection callback runs.
C31_ErrorCodesReported ==
    \A p \in active :
        /\ HandlerErrorCode(p) =>
               /\ Returned(p) = ActionError.type
               /\ pc[p] = "done" =>
                      /\ ret[p] = ActionError
                      /\ \A j \in ErrorRateIndexes :
                             /\ Measurements(p, j, "invocations") = 1
                             /\ Measurements(p, j, "errors") = 1
               /\ response[p] = <<status[p]>>
               /\ handled[p] = <<>>
        /\ TransportErrorCode(p) =>
               /\ Returned(p) = StatusCodeError.type
               /\ pc[p] = "done" =>
                      /\ ret[p] = StatusCodeError
                      /\ \A j \in ErrorRateIndexes :
                             /\ Measurements(p, j, "invocations") = 1
                             /\ Measurements(p, j, "errors") = 1
               /\ trip[p].at = "returned" =>
                      /\ trip[p].result = <<trip[p].resp, Nil>>
                      /\ trip[p].seen = <<>>

\* RoundTrip has returned a 500 response with a nil error, and the error
\* rate has recorded the error.
C31_Witness ==
    \E p \in active :
        /\ TransportErrorCode(p)
        /\ trip[p].at = "returned"
        /\ trip[p].result = <<StatusInternalServerError, Nil>>
        /\ ErrorRateIndexes # {}
        /\ \A j \in ErrorRateIndexes : Measurements(p, j, "errors") = 1
        /\ Count(errors) = 1

\* C32: in the transport middleware a rejected request is never sent to the
\* wrapped RoundTripper; without a callback RoundTrip returns the
\* ErrRejection as its error, and with a callback the callback runs exactly
\* once, FromTransportContext giving it the rejection, and RoundTrip returns
\* the pair the callback returned.
C32_TransportRejection ==
    \A p \in active :
        trip[p].at \in {"do", "returned"} =>
            /\ selectErr[p] # Nil => trip[p].sent = 0
            /\ trip[p].seen # <<>> =>
                   (selectErr[p] # Nil /\ trip[p].at = "returned")
            /\ (trip[p].at = "returned" /\ selectErr[p] # Nil) =>
                   /\ selectErr[p].type = "ErrRejection"
                   /\ IF transport.callback = "nil"
                      THEN /\ trip[p].result = <<NoCode, selectErr[p]>>
                           /\ trip[p].seen = <<>>
                      ELSE /\ trip[p].seen = <<selectErr[p]>>
                           /\ trip[p].result = <<NoCode, CallbackError>>

\* A request rejected by the error rate came back with the callback's pair,
\* the callback having seen the rejection.
C32_Witness ==
    \E p \in active :
        /\ trip[p].at = "returned"
        /\ transport.callback = "custom"
        /\ Len(trip[p].seen) = 1
        /\ trip[p].seen[1].Rule = RuleProbabilistic
        /\ trip[p].seen[1].Name = defaultNameErrorRate
        /\ trip[p].result = <<NoCode, CallbackError>>
        /\ trip[p].sent = 0

\* The shedder of TestTransportLoadshedder: the error rate with one minimum
\* point under the identity probability and the linear rejection curve with
\* lower = upper = 1/2, and nothing else.
StepShedder ==
    /\ rules = <<>>
    /\ rejectionRates = <<ErrorStepRate>>
    /\ minimumPoints = 1

\* With the shedder of TestTransportLoadshedder the first request is
\* admitted, and every request decided while the window holds an error is
\* rejected.
C33_RejectsAfterFirstError ==
    [][\A p \in Procs :
          (StepShedder /\ RateCalled(p)) =>
              /\ calls = 1 => pc'[p] # "usage"
              /\ Count(errors) >= 1 => pc'[p] = "usage"]_vars

\* C33: with a shedder built from an Error Rate capacity (minimum points
\* 1), the identity failure probability and a linear rejection curve with
\* lower = upper = 1/2, the first request is admitted, and a following
\* request is rejected exactly when more than half of the attempts counted
\* in the window are errors, as after a first request with an error-coded
\* response; it is rejected with an ErrRejection.
C33_RejectsAboveHalf ==
    [][\A p \in Procs :
          /\ (StepShedder /\ RateCalled(p)) =>
                 /\ calls = 1 => pc'[p] # "usage"
                 /\ pc'[p] = "usage" <=>
                        (attempts[p] > 0 /\ 2 * Count(errors) > attempts[p])
                 /\ (attempts[p] = 1 /\ Count(errors) = 1) => pc'[p] = "usage"
          /\ (StepShedder /\ pc[p] = "likelihood" /\ pc'[p] = "selected") =>
                 /\ selectErr'[p].type = "ErrRejection"
                 /\ selectErr'[p].Rate = One]_vars

\* The second request, after a first one answered 500, has come back from
\* RoundTrip with an ErrRejection and was not sent.
C33_Witness ==
    \E p \in active :
        /\ StepShedder
        /\ transport.callback = "nil"
        /\ calls = 2
        /\ Count(errors) = 1
        /\ Count(invocations) = 1
        /\ trip[p].at = "returned"
        /\ trip[p].sent = 0
        /\ trip[p].result[2].type = "ErrRejection"
        /\ trip[p].result[2].Usage = One

\* C34: the Usage, Likelihood and Rate fields of a probabilistic
\* ErrRejection are one snapshot taken at decision time: Rate is the rate's
\* curve applied to the reported Likelihood, and the reported Likelihood is
\* the probability curve applied to the reported Usage, also when other
\* invocations change the Capacity while the decision is made.
C34_RejectionIsSnapshot ==
    \A p \in Procs :
        (/\ pc[p] = "selected"
         /\ selectErr[p] # Nil
         /\ selectErr[p].Rule = RuleProbabilistic
         /\ selectErr[p].Name # ""
         /\ idx[p] \in DOMAIN rejectionRates
         /\ ~Fixed(rejectionRates[idx[p]])) =>
            LET r == rejectionRates[idx[p]]
                e == selectErr[p]
            IN  /\ e.Rate = rate[p]
                /\ e.Rate = Curve(RateCurve(r, e.Classification), e.Likelihood)
                /\ e.Likelihood = Curve(r.Curve, e.Usage)

\* C35: CapacityThrottle stamps the refresh time after the wrapped Usage
\* call has completed: the stamp is never earlier than the end of the
\* delegate call, and the next delegate call starts no earlier than the
\* duration after the end of the previous one.
C35_StampAfterDelegate ==
    [][\A p \in Procs :
          /\ (pc[p] = "refreshed" /\ pc'[p] = "cached") =>
                 /\ last' = clock
                 /\ last' >= LastRefresh.at
          /\ (pc[p] = "locked" /\ pc'[p] = "delegating" /\ refreshes # <<>>) =>
                 /\ clock - LastRefresh.at >= duration
                 /\ clock - last >= duration]_vars

\* The wrapped Usage is being called a second time, the stamp of the first
\* call having been taken one step after that call had ended.
C35_Witness ==
    \E p \in Procs :
        /\ pc[p] = "delegating"
        /\ Len(refreshes) = 1
        /\ last = refreshes[1].at + 1
        /\ clock = last + duration

(* ------------------------------------------------------------------ *)
(* More callers than the concurrency limit                             *)
(* ------------------------------------------------------------------ *)

\* NewShedder(OptionConcurrency(limit, NewCurveIdentity())) with any limit
\* up to Limit, called by every process at once.
InitCrowdedSpec ==
    /\ InitGroup
    /\ InitSide
    /\ rules = <<>>
    /\ rejectionRates = <<ConcurrencyRate>>
    /\ classifier \in Classifiers
    /\ measurePanics = FALSE
    /\ minimumPoints = 0
    /\ limit \in 1 .. Limit
    /\ active = Procs
    /\ InitCapacities
    /\ InitProcs

SpecCrowded == InitCrowdedSpec /\ [][NextConcurrent]_vars

\* C36 as stated: with one rate over a CapacityConcurrency of limit L,
\* identity probability and identity rate, the number of admitted actions
\* executing at the same time never exceeds L in any interleaving.
C36_NeverAboveLimit == Cardinality(InFlight) <= limit

\* C36, amended: a call whose Rate read finds L or more invocations in
\* flight is rejected whatever the draw; the read and the increment of
\* Wrap are separate steps, so only such a call is kept out.
C36_FullReadRejects ==
    [][\A p \in Procs :
          (/\ pc[p] = "rates"
           /\ idx[p] \in Counting
           /\ log'[p] # log[p]
           /\ current >= limit) => /\ pc'[p] = "usage"
                                   /\ ~Less(rate'[p], One)]_vars

\* A call has been rejected by the rate while as many invocations as the
\* limit allows were executing.
C36_Witness ==
    \E p \in Procs :
        /\ pc[p] = "usage"
        /\ idx[p] \in Counting
        /\ ~Less(rate[p], One)
        /\ p \notin InFlight
        /\ Cardinality(InFlight) = limit

\* C37: CapacityErrorRate.Usage always lies in [0,1]: at every read, that
\* is once the attempts have been reduced and the errors are about to be,
\* the errors counted are at most the attempts counted, at any position of
\* the two sliding windows.
C37_ErrorsWithinAttempts ==
    \A p \in Procs :
        (attempts[p] # NoRead /\ attempts[p] > 0) =>
            /\ Count(errors) <= attempts[p]
            /\ ~Less(One, CapacityErrorRateUsage(attempts[p]))

(* ------------------------------------------------------------------ *)
(* A caller that never stops calling, and the time between its calls   *)
(* ------------------------------------------------------------------ *)

\* The most samples a window holds before the caller pauses.
MaxSamples == 3

\* The rates over the capacities that keep their samples in a rolling
\* window.
WindowRates == {LandingRate, ErrorRate, ErrorStepRate, LatencyRate}

Samples == <<landing, invocations, errors, window>>

Drained == \A k \in DOMAIN Samples : Samples[k] = EmptyWindow

\* The window w after n bucket widths have passed with no sample added.
RECURSIVE Slid(_, _)
Slid(w, n) == IF n = 0 THEN w ELSE Slid(WindowSlide(w), n - 1)

\* NewShedder with one rate over a rolling-window capacity, one caller.
InitRecoverySpec ==
    /\ InitGroup
    /\ InitSide
    /\ InitShedder({}, WindowRates)
    /\ Len(rejectionRates) = 1
    /\ active = {1}
    /\ InitCapacities
    /\ InitProcs

\* The caller invokes shedder.Do(ctx, fn) once more, any number of times.
CallDoAgain(p) ==
    /\ p \in active
    /\ pc[p] \in {"idle", "done"}
    /\ \A k \in DOMAIN Samples : Count(Samples[k]) < MaxSamples
    /\ \E c \in Contexts : ctx' = [ctx EXCEPT ![p] = c]
    /\ pc' = [pc EXCEPT ![p] = "classify"]
    /\ mode' = [mode EXCEPT ![p] = "Do"]
    /\ idx' = [idx EXCEPT ![p] = 1]
    /\ attempts' = [attempts EXCEPT ![p] = NoRead]
    /\ rate' = [rate EXCEPT ![p] = Zero]
    /\ usage' = [usage EXCEPT ![p] = Zero]
    /\ selectErr' = [selectErr EXCEPT ![p] = Nil]
    /\ fn' = [fn EXCEPT ![p] = <<>>]
    /\ frames' = [frames EXCEPT ![p] = <<>>]
    /\ ret' = [ret EXCEPT ![p] = Nil]
    /\ log' = [log EXCEPT ![p] = <<>>]
    /\ UNCHANGED <<shedderVars, sideVars, groupVars, capacityVars, wrapped, calls>>

\* The width of one bucket passes while no call is at a point where it
\* reads the clock and no latency is being measured: every window slides by
\* one bucket.
Elapse ==
    /\ \A p \in Procs : ~ReadsClock(p)
    /\ \A p \in Procs : \A k \in DOMAIN frames[p] : ~Timed(frames[p][k])
    /\ landing' = WindowSlide(landing)
    /\ invocations' = WindowSlide(invocations)
    /\ errors' = WindowSlide(errors)
    /\ window' = WindowSlide(window)
    /\ UNCHANGED <<shedderVars, sideVars, groupVars, current, count, wrapped, calls, procVars>>

\* The steps of a call once it has been made.
DoStep(p) ==
    \/ DoClassify(p)
    \/ SelectRule(p)
    \/ ReduceAttempts(p)
    \/ SelectRate(p)
    \/ SelectUsage(p)
    \/ SelectLikelihood(p)
    \/ DoSelected(p)
    \/ WrapEnter(p)
    \/ RunAction(p)
    \/ WrapExit(p)

NextRecovery ==
    \/ \E p \in Procs : CallDoAgain(p) \/ DoStep(p)
    \/ Tick
    \/ Elapse

\* Time goes on, whatever the caller does and however fast its calls follow
\* each other; nothing is assumed about the caller.
SpecRecovery ==
    /\ InitRecoverySpec
    /\ [][NextRecovery]_vars
    /\ WF_vars(Tick \/ Elapse)

\* Select has rejected the call of p on a rate of 1 or more.
ShedAtOne(p) == pc[p] \in {"usage", "likelihood", "selected", "done"} /\ ~Less(rate[p], One)

\* The call of p has been admitted and is running its wrapped action.
AdmittedCall(p) == pc[p] \in {"call", "unwind"} /\ selectErr[p] = Nil

\* C38: shedding is not permanent. With rates over rolling-window
\* capacities only, a rejected call adds no sample to any window (a window
\* changes, other than by sliding, only in a step of an admitted call);
\* one window duration without a sample drains every window; a Rate read
\* from drained windows admits the call; and a rejection at a rate of 1 is
\* followed by a state in which the windows are drained or a call has been
\* admitted again.
C38_SheddingEnds ==
    /\ [](\A k \in DOMAIN Samples : Slid(Samples[k], Buckets) = EmptyWindow)
    /\ [][(/\ Samples' # Samples
           /\ Samples' # [k \in DOMAIN Samples |-> WindowSlide(Samples[k])])
              => \E p \in Procs : AdmittedCall(p)]_vars
    /\ [][\A p \in Procs :
             (Drained /\ pc[p] = "rates" /\ log'[p] # log[p]) => pc'[p] # "usage"]_vars
    /\ \A p \in Procs : ShedAtOne(p) ~> (Drained \/ \E q \in Procs : AdmittedCall(q))

\* A call has been rejected at a rate of 1 and, no sample having been
\* added since, the windows have drained.
C38_Witness ==
    \E p \in Procs :
        /\ pc[p] = "done"
        /\ ret[p] # Nil
        /\ selectErr[p] # Nil
        /\ ~Less(rate[p], One)
        /\ Drained

(* ------------------------------------------------------------------ *)
(* CapacityThrottle: callers waiting for the mutex, a wrapped Usage    *)
(* that panics                                                         *)
(* ------------------------------------------------------------------ *)

\* CapacityThrottle.Usage is called: the caller reaches self.lock.Lock().
ThrottleCall(p) ==
    /\ p \in active
    /\ pc[p] \in {"idle", "done"}
    /\ calls < MaxReads
    /\ calls' = calls + 1
    /\ ret' = [ret EXCEPT ![p] = Nil]
    /\ pc' = [pc EXCEPT ![p] = "waiting"]
    /\ UNCHANGED <<shedderVars, sideVars, groupVars, capacityVars, wrapped, mode, ctx, idx,
                   attempts, rate, usage, selectErr, fn, frames, log>>

\* self.lock.Lock() returns: the mutex was free and is now held by p.
ThrottleAcquire(p) ==
    /\ pc[p] = "waiting"
    /\ lock = Unlocked
    /\ lock' = p
    /\ pc' = [pc EXCEPT ![p] = "locked"]
    /\ UNCHANGED <<shedderVars, curveVars, handlerVars, transportVars, groupVars, capacityVars,
                   wrapped, calls, mode, ctx, idx, attempts, rate, usage, selectErr, fn,
                   frames, ret, log, duration, last, cache, clock, refreshes>>

\* A panic of the wrapped Usage that leaves Usage without the deferred
\* Unlock.
ThrottlePanicHolds(p) ==
    /\ pc[p] = "delegating"
    /\ ret' = [ret EXCEPT ![p] = Panic]
    /\ pc' = [pc EXCEPT ![p] = "done"]
    /\ UNCHANGED <<shedderVars, sideVars, groupVars, capacityVars, wrapped, calls, mode, ctx,
                   idx, attempts, rate, usage, selectErr, fn, frames, log>>

\* self.Capacity.Usage(ctx) panics: cache and last stay as they were, the
\* deferred self.lock.Unlock() runs and the panic goes on to the caller.
ThrottlePanic(p) ==
    /\ pc[p] = "delegating"
    /\ lock' = IF lock = p THEN Unlocked ELSE lock
    /\ ret' = [ret EXCEPT ![p] = Panic]
    /\ pc' = [pc EXCEPT ![p] = "done"]
    /\ UNCHANGED <<shedderVars, curveVars, handlerVars, transportVars, groupVars, capacityVars,
                   wrapped, calls, mode, ctx, idx, attempts, rate, usage, selectErr, fn,
                   frames, log, duration, last, cache, clock, refreshes>>

\* The steps of a Usage call between Lock and the return.
ThrottleStep(p) ==
    \/ ThrottleCheck(p)
    \/ ThrottleDelegate(p)
    \/ ThrottlePanic(p)
    \/ ThrottleStamp(p)
    \/ ThrottleReturn(p)

NextThrottleLive ==
    \/ \E p \in Procs : ThrottleCall(p) \/ ThrottleAcquire(p) \/ ThrottleStep(p)
    \/ ThrottleTick

\* Every goroutine that can take a step takes one, the call of the wrapped
\* Usage included (it returns or panics); a goroutine waiting in Lock gets
\* the mutex if it is free again and again (sync.Mutex hands the mutex to a
\* waiter that has waited long).
SpecThrottleLive ==
    /\ InitThrottleSpec
    /\ [][NextThrottleLive]_vars
    /\ \A p \in Procs : WF_vars(ThrottleStep(p)) /\ SF_vars(ThrottleAcquire(p))

\* The callers that are between Lock and the deferred Unlock.
Holding == {p \in Procs : pc[p] \in {"locked", "delegating", "refreshed", "cached"}}

\* C39: CapacityThrottle never leaves its lock held: the mutex is held by
\* the one caller that is inside Usage and by nobody once Usage has been
\* left, by return or by a panic of the wrapped Usage; and with concurrent
\* callers every Usage call that has been made comes to its end.
C39_LockReleased ==
    /\ [](/\ Cardinality(Holding) <= 1
          /\ \A p \in Procs : p \in Holding <=> lock = p
          /\ Holding = {} <=> lock = Unlocked)
    /\ \A p \in Procs : (pc[p] = "waiting") ~> (pc[p] = "done")

\* The wrapped Usage has panicked in the call of one caller, another caller
\* has refreshed the cache and returned, and the mutex is free.
C39_Witness ==
    \E p, q \in Procs :
        /\ p # q
        /\ pc[p] = "done" /\ ret[p] = Panic
        /\ pc[q] = "done" /\ ret[q] = Nil
        /\ refreshes # <<>>
        /\ refreshes[Len(refreshes)].by = q
        /\ lock = Unlocked

(* ------------------------------------------------------------------ *)
(* A CapacityWaitGroup used as a wait group and as a Wrapper at once   *)
(* ------------------------------------------------------------------ *)

\* c := NewCapacityWaitGroup(Limit): one goroutine adds work and waits, the
\* workers end with Done, and every process also runs invocations through
\* c.Wrap, the Wrap of the embedded CapacityConcurrency. The capacity
\* stands at index 1.
InitGroupWrapSpec ==
    /\ InitGroup
    /\ InitSide
    /\ rules = <<>>
    /\ rejectionRates = <<ConcurrencyRate>>
    /\ classifier = "nil"
    /\ measurePanics = FALSE
    /\ minimumPoints = 0
    /\ limit = Limit
    /\ active = Procs
    /\ InitCapacities
    /\ InitProcs

NextGroupWrap ==
    \/ NextWaitGroup
    \/ \E p \in Procs :
           \/ TestWrapCall(p)
           \/ WrapEnter(p)
           \/ RunAction(p)
           \/ WrapExit(p)

SpecGroupWrap == InitGroupWrapSpec /\ [][NextGroupWrap]_vars

\* No Add and no Done of the CapacityWaitGroup is between its two
\* statements.
GroupAtRest == waiter.pc # "add" /\ \A p \in Procs : worker[p] # "done"

\* C40: invocations run through the promoted Wrap of a CapacityWaitGroup
\* change the concurrency counter and never the wait group: a step of a
\* wrapped invocation leaves the wait group's count as it was, Wait returns
\* as soon as that count is zero whatever is executing, and with no Add or
\* Done in progress the counter is the wait group's count plus the number
\* of wrapped invocations executing.
C40_WrapLeavesWaitGroup ==
    /\ [][frames' # frames => wg' = wg /\ current' # current]_vars
    /\ [](waiter.pc = "added" /\ wg = 0 => ENABLED CapacityWaitGroupWait)
    /\ [](GroupAtRest => current = wg + Cardinality(InFlight))

\* Wait has returned, all added work being done, while a wrapped invocation
\* is executing: wait group 0, counter 1.
C40_Witness ==
    /\ waiter.pc = "waited"
    /\ wg = 0
    /\ Cardinality(InFlight) = 1
    /\ current = 1

====
